---- MODULE Spec2Model ----
(***************************************************************************)
(* Model of the fruit-ninja-cv game engine (src/hooks/useGameEngine.ts)    *)
(* together with the frame loop of FruitNinjaGame that drives it.          *)
(*                                                                         *)
(* React state is modelled by the variables below.  Within one handler the *)
(* queued state updaters are applied in the order in which the handler     *)
(* queues them, while every value the handler reads from its closure       *)
(* (fruits, bombs, specialFruits, activeEffect, timeScale, fruitsSliced)   *)
(* is the value of the last render, i.e. the value at the start of the     *)
(* handler.  Refs (lastSpawnRef, lastComboTimeRef, waveRef, ...) are read  *)
(* and written immediately.                                                *)
(*                                                                         *)
(* Units.  Lengths are counted in cells of 5 px, so the radii 35, 50, 40   *)
(* and 45 px are 7, 10, 8 and 9 cells and the margins 50 and 100 px are 10 *)
(* and 20 cells.  Time is in milliseconds.  timeScale is held in tenths    *)
(* (10 = 1.0, 2 = 0.2, 3 = 0.3).  The ballistic constants (gravity, launch *)
(* speed, the kick given to the halves) are coarsened to whole cells per   *)
(* frame so that a flight lasts a handful of frames; products with the     *)
(* timeScale are rounded down to whole cells.                              *)
(***************************************************************************)
EXTENDS Integers, Sequences, FiniteSets, TLC

----------------------------------------------------------------------------
(* Program constants                                                       *)

INITIAL_LIVES == 3
SPAWN_INTERVAL_BASE == 1500
SPAWN_INTERVAL_MIN == 600
PARTICLE_COUNT == 12
PARTICLE_LIFETIME == 600
SLICED_FRUIT_LIFETIME == 1500
SCORE_POPUP_LIFETIME == 1000
COMBO_WINDOW == 800
SPECIAL_FRUIT_MIN_WAVE == 1
GUARANTEED_SPECIAL_INTERVAL == 15
MAX_MULTIPLIER == 8
SPECIAL_BONUS == 50
FREEZE_DURATION == 3000
FRENZY_DURATION == 4000
BOMB_FLASH_DURATION == 300
CRITICAL_FLASH_DURATION == 400
WAVE_ANNOUNCE_DURATION == 2000
STAGGER_REGULAR == 100
STAGGER_CRITICAL == 60
FRENZY_STAGGER == 80
FRENZY_FRUITS == 16
SPECIAL_PARTICLE_COUNT == 20
TRAIL_LENGTH == 20

FRUIT_TYPES == <<"apple", "orange", "watermelon", "banana", "pineapple", "strawberry">>

FRUIT_POINTS ==
  [t \in {"apple", "orange", "watermelon", "banana", "pineapple", "strawberry"} |->
     IF t \in {"watermelon", "pineapple"} THEN 2 ELSE 1]

\* radius: type === 'watermelon' || type === 'pineapple' ? 50 : 35   (cells of 5 px)
FruitRadius(type) == IF type = "watermelon" \/ type = "pineapple" THEN 10 ELSE 7
BOMB_RADIUS == 8
SPECIAL_RADIUS == 9

\* hitbox factors as fractions over HIT_DEN: 1.15, 1.2 and 1
HIT_DEN == 20
FRUIT_HIT_NUM == 23
SPECIAL_HIT_NUM == 24
BOMB_HIT_NUM == 20

\* canvasHeight + 50 and canvasHeight + 100, in cells
SPAWN_MARGIN == 10
CULL_MARGIN == 20

\* coarsened ballistics, cells per frame
GRAVITY == 10
HALF_KICK_X == 1
HALF_KICK_Y == 1
HALF_SPIN == 8

----------------------------------------------------------------------------
(* Bounds of the exploration                                               *)

Epoch == 5000          \* value of Date.now() when the page is loaded
Horizon == 2400        \* the clock is explored up to Epoch + Horizon
MaxRuns == 2           \* number of startGame calls explored
MaxFruits == 4         \* live fruits plus scheduled fruit spawns
MaxBombs == 1
MaxSpecials == 1
MaxSlices == 9         \* slices explored by the slice-chain specification
WaveHorizon == 2400      \* the clock of the wave specification runs to Epoch + WaveHorizon
EffectHorizon == 1600    \* that of the effect specification to Epoch + EffectHorizon
TrackHorizon == 300      \* that of the tracking specification to Epoch + TrackHorizon
MaxEvents == 2           \* pointer and tracking events explored at one clock value
FreezeHorizon == 3500    \* the freeze effect is explored up to Epoch + FreezeHorizon
BatchHorizon == 1800     \* spawn batches are explored up to Epoch + BatchHorizon
StepHorizon == 2000      \* the step to the next wave is explored up to Epoch + StepHorizon
TrailHorizon == 200      \* the trail buffer is explored up to Epoch + TrailHorizon
RestartSlices == 3       \* slices of one run explored across a restart
GameHorizon == 1500
ButtonHorizon == 2000
CameraHorizon == 22500
MaxAttempts == 2
MaxResults == 1      \* the plain-JavaScript game is explored up to Epoch + GameHorizon

canvasWidth == 40
canvasHeight == 20

DtSet == {400}                            \* time between two frame callbacks
Gaps == {200, 800, 1000}                  \* time between two slices of a slice chain

\* the outcomes of the Math.random() calls of spawnFruit that are explored:
\* type, spawnX (left or right lane) and velocityY
FruitRolls ==
  { [type |-> "apple", x |-> 10, vy |-> -5],
    [type |-> "watermelon", x |-> 25, vy |-> -10] }
BombX == 25           \* spawnX of the bombs explored (right lane)
SpecialX == 10        \* spawnX of the special fruits explored (left lane)
EntityVY == -15       \* velocityY of the bombs and special fruits explored

Max(a, b) == IF a >= b THEN a ELSE b
Min(a, b) == IF a <= b THEN a ELSE b

VARIABLES
  gameState, stats, stored,
  fruits, bombs, specialFruits, slicedFruits, particles, scorePopups,
  bombFlash, activeEffect, timeScale,
  lastSpawn, lastComboTime, waveRef, effectTimeout, spawnsSinceSpecial,
  currentWave, showWaveAnnouncement, criticalFlash,
  timers, now, frameReady,
  crashed,
  tracker,
  game, button, camera,
  run, gameOverCount, ev

vars == <<gameState, stats, stored,
          fruits, bombs, specialFruits, slicedFruits, particles, scorePopups,
          bombFlash, activeEffect, timeScale,
          lastSpawn, lastComboTime, waveRef, effectTimeout, spawnsSinceSpecial,
          currentWave, showWaveAnnouncement, criticalFlash,
          timers, now, frameReady, crashed, tracker,
          game, button, camera,
          run, gameOverCount, ev>>

\* the variables of useGameEngine
engineVars == <<gameState, stats, stored,
                fruits, bombs, specialFruits, slicedFruits, particles, scorePopups,
                bombFlash, activeEffect, timeScale,
                lastSpawn, lastComboTime, waveRef, effectTimeout, spawnsSinceSpecial,
                currentWave, showWaveAnnouncement, criticalFlash,
                timers, crashed, run, gameOverCount>>

----------------------------------------------------------------------------
(* lineCircleIntersection                                                  *)
(*                                                                         *)
(* The circle radius is rNum * r / HIT_DEN.  All quantities are multiplied *)
(* by HIT_DEN^2 so that the computation stays in the integers.  The roots  *)
(* t1 = (-b - sqrt(D)) / 2a and t2 = (-b + sqrt(D)) / 2a are compared with *)
(* 0 and 1 without extracting the square root:                             *)
(*   t1 >= 0  iff  sqrt(D) <= -b       iff  b <= 0 and D <= b^2            *)
(*   t1 <= 1  iff  sqrt(D) >= -b - 2a  iff  b + 2a >= 0 or D >= (b+2a)^2   *)
(*   t2 >= 0  iff  sqrt(D) >= b        iff  b <= 0 or D >= b^2             *)
(*   t2 <= 1  iff  sqrt(D) <= 2a + b   iff  2a + b >= 0 and D <= (2a+b)^2  *)
(* and D - b^2 = -4ac, D - (b+2a)^2 = -4a(a+b+c).  With a = 0 (a segment   *)
(* of length zero) both quotients are 0/0 = NaN and every comparison is    *)
(* false.                                                                  *)

\* variant: a segment with a point in the disc hits, also when it lies
\* wholly inside or has length zero
lineCircleIntersection_Disc(x1, y1, x2, y2, cx, cy, r, rNum) ==
  LET dx == x2 - x1
      dy == y2 - y1
      fx == x1 - cx
      fy == y1 - cy
      K  == HIT_DEN * HIT_DEN
      a  == dx * dx + dy * dy
      b  == 2 * (fx * dx + fy * dy)
      cK == K * (fx * fx + fy * fy) - (rNum * r) * (rNum * r)
      discriminantK == K * (b * b) - 4 * a * cK
      t1ge0 == b <= 0 /\ cK >= 0
      t1le1 == b + 2 * a >= 0 \/ K * (a + b) + cK <= 0
      t2ge0 == b <= 0 \/ cK <= 0
      t2le1 == 2 * a + b >= 0 /\ K * (a + b) + cK >= 0
  IN  IF discriminantK < 0 THEN FALSE
      ELSE IF a = 0 THEN cK <= 0
      ELSE (t1ge0 /\ t1le1) \/ (t2ge0 /\ t2le1) \/ (cK < 0 /\ K * (a + b) + cK < 0)

lineCircleIntersection(x1, y1, x2, y2, cx, cy, r, rNum) ==
  LET dx == x2 - x1
      dy == y2 - y1
      fx == x1 - cx
      fy == y1 - cy
      K  == HIT_DEN * HIT_DEN
      a  == dx * dx + dy * dy
      b  == 2 * (fx * dx + fy * dy)
      cK == K * (fx * fx + fy * fy) - (rNum * r) * (rNum * r)   \* c * K
      discriminantK == K * (b * b) - 4 * a * cK                  \* D * K
      t1ge0 == b <= 0 /\ cK >= 0
      t1le1 == b + 2 * a >= 0 \/ K * (a + b) + cK <= 0
      t2ge0 == b <= 0 \/ cK <= 0
      t2le1 == 2 * a + b >= 0 /\ K * (a + b) + cK >= 0
  IN  IF discriminantK < 0 THEN FALSE
      ELSE IF a = 0 THEN FALSE
      ELSE (t1ge0 /\ t1le1) \/ (t2ge0 /\ t2le1)

----------------------------------------------------------------------------
(* Helpers                                                                 *)

\* v * timeScale, timeScale in tenths, rounded down to a whole cell
Scale(v, ts) == (v * ts) \div 10

Ids(seq) == {seq[i].id : i \in DOMAIN seq}

\* generateId(): an identifier no live element of the collection carries
generateId(seq) ==
  CHOOSE n \in 1..(Len(seq) + 1) : n \notin Ids(seq) /\ \A m \in 1..(n - 1) : m \in Ids(seq)

\* n copies of e
Copies(n, e) == [i \in 1..n |-> e]

\* the program state as one record.  The last five fields are bookkeeping of
\* the handler being executed: the calls of localStorage.setItem, of
\* sliceFruit, sliceSpecialFruit, sliceBomb, spawnBomb and spawnSpecialFruit,
\* and the fruits counted as missed
World ==
  [gameState |-> gameState, stats |-> stats, stored |-> stored,
   fruits |-> fruits, bombs |-> bombs, specialFruits |-> specialFruits,
   slicedFruits |-> slicedFruits, particles |-> particles, scorePopups |-> scorePopups,
   bombFlash |-> bombFlash, activeEffect |-> activeEffect, timeScale |-> timeScale,
   lastSpawn |-> lastSpawn, lastComboTime |-> lastComboTime, waveRef |-> waveRef,
   effectTimeout |-> effectTimeout, spawnsSinceSpecial |-> spawnsSinceSpecial,
   currentWave |-> currentWave, showWaveAnnouncement |-> showWaveAnnouncement,
   criticalFlash |-> criticalFlash, timers |-> timers,
   writes |-> 0, sliceCalls |-> 0, specialCalls |-> 0, bombCalls |-> 0, missed |-> 0,
   bombSpawns |-> 0, specialSpawns |-> 0]

Install(w) ==
  /\ gameState' = w.gameState
  /\ stats' = w.stats
  /\ stored' = w.stored
  /\ fruits' = w.fruits
  /\ bombs' = w.bombs
  /\ specialFruits' = w.specialFruits
  /\ slicedFruits' = w.slicedFruits
  /\ particles' = w.particles
  /\ scorePopups' = w.scorePopups
  /\ bombFlash' = w.bombFlash
  /\ activeEffect' = w.activeEffect
  /\ timeScale' = w.timeScale
  /\ lastSpawn' = w.lastSpawn
  /\ lastComboTime' = w.lastComboTime
  /\ waveRef' = w.waveRef
  /\ effectTimeout' = w.effectTimeout
  /\ spawnsSinceSpecial' = w.spawnsSinceSpecial
  /\ currentWave' = w.currentWave
  /\ showWaveAnnouncement' = w.showWaveAnnouncement
  /\ criticalFlash' = w.criticalFlash
  /\ timers' = w.timers

----------------------------------------------------------------------------
(* Timers (setTimeout / clearTimeout)                                      *)
(*                                                                         *)
(* A pending timer is [id, kind, due, run, captured]; run is the number of *)
(* the run in which it was armed and captured is the gameState its         *)
(* callback closed over.  effectTimeout = 0 stands for null.               *)

TimerIdsInUse(w) ==
  {w.timers[i].id : i \in DOMAIN w.timers} \cup
  (IF w.effectTimeout = 0 THEN {} ELSE {w.effectTimeout})

NewTimerId(w) ==
  CHOOSE n \in 1..(Len(w.timers) + 2) :
    n \notin TimerIdsInUse(w) /\ \A m \in 1..(n - 1) : m \in TimerIdsInUse(w)

setTimeout(w, kind, delay, t, r) ==
  [w EXCEPT !.timers = Append(@, [id |-> NewTimerId(w), kind |-> kind, due |-> t + delay,
                                  run |-> r, captured |-> w.gameState])]

clearTimeout(w, id) ==
  LET keep(tm) == tm.id # id
  IN  [w EXCEPT !.timers = SelectSeq(@, keep)]

\* setTimeout(...) for i = 0 .. n-1 with delay i * step
RECURSIVE Stagger(_, _, _, _, _, _, _)
Stagger(w, kind, i, n, step, t, r) ==
  IF i >= n THEN w
  ELSE Stagger(setTimeout(w, kind, i * step, t, r), kind, i + 1, n, step, t, r)

----------------------------------------------------------------------------
(* Spawning                                                                *)

spawnFruit(w, type, x, vy, r) ==
  LET fruit == [id |-> generateId(w.fruits), type |-> type,
                x |-> x, y |-> canvasHeight + SPAWN_MARGIN,
                velocityX |-> 0, velocityY |-> vy,
                radius |-> FruitRadius(type), sliced |-> FALSE,
                run |-> r]        \* run: the run whose batch scheduled the spawn
  IN  [w EXCEPT !.fruits = Append(@, fruit)]

spawnBomb(w, x, vy) ==
  LET bomb == [id |-> generateId(w.bombs),
               x |-> x, y |-> canvasHeight + SPAWN_MARGIN,
               velocityX |-> 0, velocityY |-> vy,
               radius |-> BOMB_RADIUS, sliced |-> FALSE]
  IN  [w EXCEPT !.bombs = Append(@, bomb), !.bombSpawns = @ + 1]

spawnSpecialFruit(w, type, x, vy) ==
  LET special == [id |-> generateId(w.specialFruits), specialType |-> type,
                  x |-> x, y |-> canvasHeight + SPAWN_MARGIN,
                  velocityX |-> 0, velocityY |-> vy,
                  radius |-> SPECIAL_RADIUS]
  IN  [w EXCEPT !.specialFruits = Append(@, special), !.specialSpawns = @ + 1]

----------------------------------------------------------------------------
(* Power-up effects                                                        *)

activateFrenzy(w, t, r) ==
  LET w1 == IF w.effectTimeout # 0 THEN clearTimeout(w, w.effectTimeout) ELSE w
      w2 == [w1 EXCEPT !.activeEffect = "frenzy", !.timeScale = 3]
      w3 == Stagger(w2, "frenzyFruit", 0, FRENZY_FRUITS, FRENZY_STAGGER, t, r)
      id == NewTimerId(w3)
      w4 == setTimeout(w3, "effectOff", FRENZY_DURATION, t, r)
  IN  [w4 EXCEPT !.effectTimeout = id]

\* variant: the pending expiry timer is left running
activateFreeze_NoCancel(w, t, r) ==
  LET w2 == [w EXCEPT !.activeEffect = "freeze", !.timeScale = 2]
      id == NewTimerId(w2)
      w3 == setTimeout(w2, "effectOff", FREEZE_DURATION, t, r)
  IN  [w3 EXCEPT !.effectTimeout = id]

activateFreeze(w, t, r) ==
  LET w1 == IF w.effectTimeout # 0 THEN clearTimeout(w, w.effectTimeout) ELSE w
      w2 == [w1 EXCEPT !.activeEffect = "freeze", !.timeScale = 2]
      id == NewTimerId(w2)
      w3 == setTimeout(w2, "effectOff", FREEZE_DURATION, t, r)
  IN  [w3 EXCEPT !.effectTimeout = id]

----------------------------------------------------------------------------
(* Visual effects.  Particles and popups never take part in a collision;   *)
(* the model keeps their creation time and lifetime and leaves out their   *)
(* position, colour and text.                                              *)

createParticles(w, t) ==
  [w EXCEPT !.particles =
     @ \o Copies(PARTICLE_COUNT, [createdAt |-> t, lifetime |-> PARTICLE_LIFETIME])]

createSlicedFruit(w, fruit, t) ==
  LET leftHalf  == [type |-> fruit.type, x |-> fruit.x, y |-> fruit.y,
                    velocityX |-> fruit.velocityX - HALF_KICK_X,
                    velocityY |-> fruit.velocityY - HALF_KICK_Y,
                    rotationSpeed |-> -HALF_SPIN, radius |-> fruit.radius,
                    half |-> "left", createdAt |-> t]
      rightHalf == [type |-> fruit.type, x |-> fruit.x, y |-> fruit.y,
                    velocityX |-> fruit.velocityX + HALF_KICK_X,
                    velocityY |-> fruit.velocityY - HALF_KICK_Y,
                    rotationSpeed |-> HALF_SPIN, radius |-> fruit.radius,
                    half |-> "right", createdAt |-> t]
  IN  [w EXCEPT !.slicedFruits = @ \o <<leftHalf, rightHalf>>]

addScorePopup(w, t) ==
  [w EXCEPT !.scorePopups = Append(@, [createdAt |-> t])]

----------------------------------------------------------------------------
(* Slicing                                                                 *)

sliceSpecialFruit(w, special, t, r) ==
  LET w1 == [w EXCEPT !.particles =
               @ \o Copies(SPECIAL_PARTICLE_COUNT,
                           [createdAt |-> t, lifetime |-> (PARTICLE_LIFETIME * 3) \div 2])]
      w2 == addScorePopup(w1, t)
      w3 == [w2 EXCEPT !.stats.score = @ + SPECIAL_BONUS]
      keep(s) == s.id # special.id
      w4 == [w3 EXCEPT !.specialFruits = SelectSeq(@, keep), !.specialCalls = @ + 1]
  IN  IF special.specialType = "frenzy" THEN activateFrenzy(w4, t, r)
      ELSE activateFreeze(w4, t, r)

\* variant: a gap of exactly COMBO_WINDOW still continues the chain
IsPartOfCombo_Inclusive(t, last) == t - last <= COMBO_WINDOW /\ last > 0

\* timeSinceLastSlice < COMBO_WINDOW && lastComboTimeRef.current > 0
IsPartOfCombo(t, last) == t - last < COMBO_WINDOW /\ last > 0

\* variant: maxCombo is not updated
SliceStats_NoMax(prev, isPartOfCombo, basePoints) ==
  LET newCombo == IF isPartOfCombo THEN prev.combo + 1 ELSE 1
      comboMultiplier == Min(newCombo, MAX_MULTIPLIER)
      newScore == prev.score + basePoints * comboMultiplier
  IN  [prev EXCEPT !.score = newScore,
                   !.combo = newCombo,
                   !.fruitsSliced = prev.fruitsSliced + 1,
                   !.highScore = Max(newScore, prev.highScore)]

\* variant: the multiplier is not capped
SliceStats_Uncapped(prev, isPartOfCombo, basePoints) ==
  LET newCombo == IF isPartOfCombo THEN prev.combo + 1 ELSE 1
      newScore == prev.score + basePoints * newCombo
  IN  [prev EXCEPT !.score = newScore,
                   !.combo = newCombo,
                   !.maxCombo = Max(newCombo, prev.maxCombo),
                   !.fruitsSliced = prev.fruitsSliced + 1,
                   !.highScore = Max(newScore, prev.highScore)]

\* the updater sliceFruit passes to setStats
SliceStats(prev, isPartOfCombo, basePoints) ==
  LET newCombo == IF isPartOfCombo THEN prev.combo + 1 ELSE 1
      comboMultiplier == Min(newCombo, MAX_MULTIPLIER)
      points == basePoints * comboMultiplier
      newScore == prev.score + points
      newHighScore == Max(newScore, prev.highScore)
  IN  [prev EXCEPT !.score = newScore,
                   !.combo = newCombo,
                   !.maxCombo = Max(newCombo, prev.maxCombo),
                   !.fruitsSliced = prev.fruitsSliced + 1,
                   !.highScore = newHighScore]

sliceFruit(w, fruit, t) ==
  LET isPartOfCombo == IsPartOfCombo(t, w.lastComboTime)
      prev == w.stats
      next == SliceStats(prev, isPartOfCombo, FRUIT_POINTS[fruit.type])
      persist == next.highScore > prev.highScore
      w1 == [w EXCEPT !.lastComboTime = t,
                      !.stats = next,
                      !.stored = IF persist THEN next.highScore ELSE @,
                      !.writes = IF persist THEN @ + 1 ELSE @,
                      !.sliceCalls = @ + 1]
      w2 == addScorePopup(createSlicedFruit(createParticles(w1, t), fruit, t), t)
      keep(f) == f.id # fruit.id
  IN  [w2 EXCEPT !.fruits = SelectSeq(@, keep)]

\* variant: a bomb costs one life
BombStats_LoseOne(prev) ==
  [prev EXCEPT !.lives = Max(0, prev.lives - 1),
               !.highScore = Max(prev.score, prev.highScore)]

\* the updater sliceBomb passes to setStats
BombStats(prev) ==
  [prev EXCEPT !.lives = 0, !.highScore = Max(prev.score, prev.highScore)]

sliceBomb(w, t, r) ==
  LET w1 == setTimeout([w EXCEPT !.bombFlash = TRUE], "bombFlashOff", BOMB_FLASH_DURATION, t, r)
      prev == w1.stats
      next == BombStats(prev)
      persist == next.highScore > prev.highScore
  IN  [w1 EXCEPT !.stats = next,
                 !.stored = IF persist THEN next.highScore ELSE @,
                 !.writes = IF persist THEN @ + 1 ELSE @,
                 !.bombCalls = @ + 1,
                 !.gameState = "gameover"]

----------------------------------------------------------------------------
(* checkCollisions.  snap is the render the callback closed over: the      *)
(* lists it iterates and the activeEffect it tests are those of the start  *)
(* of the frame, while every slice it performs is applied to w.            *)

\* variant: the hitbox of a fruit is its visual radius
HitsFruit_VisualRadius(p1, p2, fruit) ==
  lineCircleIntersection(p1.x, p1.y, p2.x, p2.y, fruit.x, fruit.y, fruit.radius, HIT_DEN)

HitsFruit(p1, p2, fruit) ==
  lineCircleIntersection(p1.x, p1.y, p2.x, p2.y, fruit.x, fruit.y, fruit.radius, FRUIT_HIT_NUM)

HitsSpecial(p1, p2, special) ==
  lineCircleIntersection(p1.x, p1.y, p2.x, p2.y, special.x, special.y, special.radius, SPECIAL_HIT_NUM)

HitsBomb(p1, p2, bomb) ==
  lineCircleIntersection(p1.x, p1.y, p2.x, p2.y, bomb.x, bomb.y, bomb.radius, BOMB_HIT_NUM)

\* fruits.forEach(fruit => ...)
RECURSIVE ForEachFruit(_, _, _, _, _, _)
ForEachFruit(w, list, j, p1, p2, t) ==
  IF j > Len(list) THEN w
  ELSE LET next == IF ~list[j].sliced /\ HitsFruit(p1, p2, list[j])
                   THEN sliceFruit(w, list[j], t) ELSE w
       IN  \* the test only makes next a value before the loop goes on
           IF next.sliceCalls >= 0 THEN ForEachFruit(next, list, j + 1, p1, p2, t)
           ELSE next

\* specialFruits.forEach(special => ...)
RECURSIVE ForEachSpecial(_, _, _, _, _, _, _)
ForEachSpecial(w, list, j, p1, p2, t, r) ==
  IF j > Len(list) THEN w
  ELSE ForEachSpecial(IF HitsSpecial(p1, p2, list[j])
                      THEN sliceSpecialFruit(w, list[j], t, r) ELSE w,
                      list, j + 1, p1, p2, t, r)

\* bombs.forEach(bomb => ...)
RECURSIVE ForEachBomb(_, _, _, _, _, _, _)
ForEachBomb(w, list, j, p1, p2, t, r) ==
  IF j > Len(list) THEN w
  ELSE ForEachBomb(IF ~list[j].sliced /\ HitsBomb(p1, p2, list[j])
                   THEN sliceBomb(w, t, r) ELSE w,
                   list, j + 1, p1, p2, t, r)

\* for (let i = Math.max(0, trail.length - 5); i < trail.length - 1; i++)
RECURSIVE ForEachSegment(_, _, _, _, _, _)

\* variant: a segment that hits a bomb slices nothing else
ForEachSegment_BombSuppresses(w, snap, tr, i, t, r) ==
  IF i > Len(tr) - 1 THEN w
  ELSE LET p1 == tr[i]
           p2 == tr[i + 1]
           wf == ForEachFruit(w, snap.fruits, 1, p1, p2, t)
           ws == ForEachSpecial(wf, snap.specialFruits, 1, p1, p2, t, r)
           wx == ForEachBomb(w, snap.bombs, 1, p1, p2, t, r)
           wb == IF snap.activeEffect = "frenzy" THEN ws
                 ELSE IF wx.bombCalls > w.bombCalls THEN wx
                 ELSE ws
       IN  IF wb.sliceCalls >= 0 THEN ForEachSegment(wb, snap, tr, i + 1, t, r)
           ELSE wb

\* variant: bombs are checked whatever effect is active
ForEachSegment_NoImmunity(w, snap, tr, i, t, r) ==
  IF i > Len(tr) - 1 THEN w
  ELSE LET p1 == tr[i]
           p2 == tr[i + 1]
           wf == ForEachFruit(w, snap.fruits, 1, p1, p2, t)
           ws == ForEachSpecial(wf, snap.specialFruits, 1, p1, p2, t, r)
           wb == ForEachBomb(ws, snap.bombs, 1, p1, p2, t, r)
       IN  IF wb.sliceCalls >= 0 THEN ForEachSegment(wb, snap, tr, i + 1, t, r)
           ELSE wb

ForEachSegment(w, snap, tr, i, t, r) ==
  IF i > Len(tr) - 1 THEN w
  ELSE LET p1 == tr[i]
           p2 == tr[i + 1]
           wf == ForEachFruit(w, snap.fruits, 1, p1, p2, t)
           ws == ForEachSpecial(wf, snap.specialFruits, 1, p1, p2, t, r)
           wb == IF snap.activeEffect # "frenzy"
                 THEN ForEachBomb(ws, snap.bombs, 1, p1, p2, t, r) ELSE ws
       IN  \* the test only makes wb a value before the loop goes on
           IF wb.sliceCalls >= 0 THEN ForEachSegment(wb, snap, tr, i + 1, t, r)
           ELSE wb

\* variant: the is-swiping signal is not looked at
checkCollisions_IgnoresSwiping(w, snap, tr, swiping, t, r) ==
  IF Len(tr) < 2 THEN w
  ELSE ForEachSegment(w, snap, tr, Max(1, Len(tr) - 4), t, r)

checkCollisions(w, snap, tr, swiping, t, r) ==
  IF ~swiping \/ Len(tr) < 2 THEN w
  ELSE ForEachSegment(w, snap, tr, Max(1, Len(tr) - 4), t, r)

----------------------------------------------------------------------------
(* updatePhysics.  timeScale, activeEffect and stats.fruitsSliced are read *)
(* from the render the callback closed over (snap).                        *)

Move(e, ts) ==
  [e EXCEPT !.x = e.x + Scale(e.velocityX, ts),
            !.y = e.y + Scale(e.velocityY, ts),
            !.velocityY = e.velocityY + Scale(GRAVITY, ts)]

MoveAll(list, ts) == [i \in DOMAIN list |-> Move(list[i], ts)]

\* if (newFruit.y > canvasHeight + 100) missedCount++
FruitMissed(fruit) == fruit.y > canvasHeight + CULL_MARGIN

\* .filter(bomb => bomb.y < canvasHeight + 100), also used for special fruits
OnScreen(e) == e.y < canvasHeight + CULL_MARGIN

\* variant: the lives are not clamped at 0
MissStats_NoClamp(prev, missedCount) ==
  LET newLives == prev.lives - missedCount
  IN  IF newLives <= 0
      THEN [prev EXCEPT !.lives = newLives, !.highScore = Max(prev.score, prev.highScore)]
      ELSE [prev EXCEPT !.lives = newLives]

\* variant: one life per tick with misses, however many fruits were missed
MissStats_OnePerTick(prev, missedCount) ==
  LET newLives == prev.lives - 1
  IN  IF newLives <= 0
      THEN [prev EXCEPT !.lives = 0, !.highScore = Max(prev.score, prev.highScore)]
      ELSE [prev EXCEPT !.lives = newLives]

\* the updater the fruit pass hands to setStats when missedCount > 0
MissStats(prev, missedCount) ==
  LET newLives == prev.lives - missedCount
  IN  IF newLives <= 0
      THEN [prev EXCEPT !.lives = 0, !.highScore = Max(prev.score, prev.highScore)]
      ELSE [prev EXCEPT !.lives = newLives]

\* variant: the last life is lost without setGameState('gameover')
UpdateFruits_NoGameOver(w, ts) ==
  LET moved == MoveAll(w.fruits, ts)
      kept(f) == ~FruitMissed(f)
      updated == SelectSeq(moved, kept)
      missedCount == Len(moved) - Len(updated)
      next == MissStats(w.stats, missedCount)
      over == w.stats.lives - missedCount <= 0
  IN  IF missedCount > 0
      THEN [w EXCEPT !.fruits = updated,
                     !.missed = missedCount,
                     !.stats = next,
                     !.stored = IF over THEN next.highScore ELSE @,
                     !.writes = IF over THEN @ + 1 ELSE @]
      ELSE [w EXCEPT !.fruits = updated]

\* the fruit pass of updatePhysics
UpdateFruits(w, ts) ==
  LET moved == MoveAll(w.fruits, ts)
      kept(f) == ~FruitMissed(f)
      updated == SelectSeq(moved, kept)
      missedCount == Len(moved) - Len(updated)
      next == MissStats(w.stats, missedCount)
      over == w.stats.lives - missedCount <= 0
  IN  IF missedCount > 0
      THEN [w EXCEPT !.fruits = updated,
                     !.missed = missedCount,
                     !.stats = next,
                     !.stored = IF over THEN next.highScore ELSE @,
                     !.writes = IF over THEN @ + 1 ELSE @,
                     !.gameState = IF over THEN "gameover" ELSE @]
      ELSE [w EXCEPT !.fruits = updated]

\* variant: halves that have left the screen are dropped like bombs
UpdateOthers_CullHalves(w, ts, t) ==
  LET fresh(sf) == t - sf.createdAt < SLICED_FRUIT_LIFETIME /\ OnScreen(sf)
      alive(p) == t - p.createdAt < p.lifetime
      shown(sp) == t - sp.createdAt < SCORE_POPUP_LIFETIME
  IN  [w EXCEPT !.bombs = SelectSeq(MoveAll(@, ts), OnScreen),
                !.specialFruits = SelectSeq(MoveAll(@, ts), OnScreen),
                !.slicedFruits = SelectSeq(MoveAll(@, ts), fresh),
                !.particles = SelectSeq(@, alive),
                !.scorePopups = SelectSeq(@, shown)]

UpdateOthers(w, ts, t) ==
  LET fresh(sf) == t - sf.createdAt < SLICED_FRUIT_LIFETIME
      alive(p) == t - p.createdAt < p.lifetime
      shown(sp) == t - sp.createdAt < SCORE_POPUP_LIFETIME
  IN  [w EXCEPT !.bombs = SelectSeq(MoveAll(@, ts), OnScreen),
                !.specialFruits = SelectSeq(MoveAll(@, ts), OnScreen),
                !.slicedFruits = SelectSeq(MoveAll(@, ts), fresh),
                !.particles = SelectSeq(@, alive),
                !.scorePopups = SelectSeq(@, shown)]

\* variant: the interval has no lower limit
SpawnInterval_NoFloor(wave) == SPAWN_INTERVAL_BASE - wave * 100

\* Math.max(SPAWN_INTERVAL_MIN, SPAWN_INTERVAL_BASE - waveRef.current * 100)
SpawnInterval(wave) == Max(SPAWN_INTERVAL_MIN, SPAWN_INTERVAL_BASE - wave * 100)

\* the outcomes of the Math.random() calls of one spawn batch
Rolls(wave) ==
  {rnd \in [critical : BOOLEAN, criticalCount : {4, 5}, fruitCount : 1..Min(3, wave),
            bomb : BOOLEAN, special : BOOLEAN] :
     /\ rnd.critical => rnd.fruitCount = 1 /\ ~rnd.bomb
     /\ ~rnd.critical => rnd.criticalCount = 4}

\* variant: no special fruit is forced
shouldSpawnSpecial_NoGuarantee(w, rnd) ==
  w.waveRef >= SPECIAL_FRUIT_MIN_WAVE /\ rnd.special

\* (wave >= SPECIAL_FRUIT_MIN_WAVE && Math.random() < SPECIAL_FRUIT_CHANCE)
\*   || spawnsSinceSpecialRef.current >= GUARANTEED_SPECIAL_INTERVAL
shouldSpawnSpecial(w, rnd) ==
  (w.waveRef >= SPECIAL_FRUIT_MIN_WAVE /\ rnd.special)
  \/ w.spawnsSinceSpecial >= GUARANTEED_SPECIAL_INTERVAL

\* variant: the special fruit of a batch is a frenzy fruit
SpawnBatch_Frenzy(w, snap, t, r, rnd) ==
  LET w1 == [w EXCEPT !.lastSpawn = t, !.spawnsSinceSpecial = @ + 1]
      w2 == IF rnd.critical
            THEN setTimeout([Stagger(w1, "spawnFruit", 0, rnd.criticalCount, STAGGER_CRITICAL, t, r)
                               EXCEPT !.criticalFlash = TRUE],
                            "criticalFlashOff", CRITICAL_FLASH_DURATION, t, r)
            ELSE LET wr == Stagger(w1, "spawnFruit", 0, rnd.fruitCount, STAGGER_REGULAR, t, r)
                 IN  IF rnd.bomb THEN spawnBomb(wr, BombX, EntityVY) ELSE wr
      w3 == IF shouldSpawnSpecial(w2, rnd)
            THEN [spawnSpecialFruit(w2, "frenzy", SpecialX, EntityVY)
                    EXCEPT !.spawnsSinceSpecial = 0]
            ELSE w2
      newWave == (snap.stats.fruitsSliced \div 10) + 1
  IN  IF newWave > w3.waveRef
      THEN setTimeout([w3 EXCEPT !.waveRef = newWave, !.currentWave = newWave,
                                 !.showWaveAnnouncement = TRUE],
                      "waveOff", WAVE_ANNOUNCE_DURATION, t, r)
      ELSE w3

\* variant: a critical batch spawns a bomb too
SpawnBatch_CriticalBomb(w, snap, t, r, rnd) ==
  LET w1 == [w EXCEPT !.lastSpawn = t, !.spawnsSinceSpecial = @ + 1]
      w2 == IF rnd.critical
            THEN spawnBomb(
                   setTimeout([Stagger(w1, "spawnFruit", 0, rnd.criticalCount, STAGGER_CRITICAL, t, r)
                                 EXCEPT !.criticalFlash = TRUE],
                              "criticalFlashOff", CRITICAL_FLASH_DURATION, t, r),
                   BombX, EntityVY)
            ELSE LET wr == Stagger(w1, "spawnFruit", 0, rnd.fruitCount, STAGGER_REGULAR, t, r)
                 IN  IF rnd.bomb THEN spawnBomb(wr, BombX, EntityVY) ELSE wr
      w3 == IF shouldSpawnSpecial(w2, rnd)
            THEN [spawnSpecialFruit(w2, "freeze", SpecialX, EntityVY)
                    EXCEPT !.spawnsSinceSpecial = 0]
            ELSE w2
      newWave == (snap.stats.fruitsSliced \div 10) + 1
  IN  IF newWave > w3.waveRef
      THEN setTimeout([w3 EXCEPT !.waveRef = newWave, !.currentWave = newWave,
                                 !.showWaveAnnouncement = TRUE],
                      "waveOff", WAVE_ANNOUNCE_DURATION, t, r)
      ELSE w3

SpawnBatch(w, snap, t, r, rnd) ==
  LET w1 == [w EXCEPT !.lastSpawn = t, !.spawnsSinceSpecial = @ + 1]
      w2 == IF rnd.critical
            THEN setTimeout([Stagger(w1, "spawnFruit", 0, rnd.criticalCount, STAGGER_CRITICAL, t, r)
                               EXCEPT !.criticalFlash = TRUE],
                            "criticalFlashOff", CRITICAL_FLASH_DURATION, t, r)
            ELSE LET wr == Stagger(w1, "spawnFruit", 0, rnd.fruitCount, STAGGER_REGULAR, t, r)
                 IN  IF rnd.bomb THEN spawnBomb(wr, BombX, EntityVY) ELSE wr
      w3 == IF shouldSpawnSpecial(w2, rnd)
            THEN [spawnSpecialFruit(w2, "freeze", SpecialX, EntityVY)
                    EXCEPT !.spawnsSinceSpecial = 0]
            ELSE w2
      newWave == (snap.stats.fruitsSliced \div 10) + 1
  IN  IF newWave > w3.waveRef
      THEN setTimeout([w3 EXCEPT !.waveRef = newWave, !.currentWave = newWave,
                                 !.showWaveAnnouncement = TRUE],
                      "waveOff", WAVE_ANNOUNCE_DURATION, t, r)
      ELSE w3

SpawnDue(w, snap, t) ==
  snap.activeEffect # "frenzy" /\ t - w.lastSpawn > SpawnInterval(w.waveRef)

updatePhysics(w, snap, t, r, rnd) ==
  LET w1 == UpdateOthers(UpdateFruits(w, snap.timeScale), snap.timeScale, t)
  IN  IF SpawnDue(w1, snap, t) THEN SpawnBatch(w1, snap, t, r, rnd) ELSE w1

----------------------------------------------------------------------------
(* The pointer source (useHandTracking) as seen by a frame callback: the    *)
(* trail returned by getTrail() and the isSwiping flag are inputs of the   *)
(* frame.                                                                  *)

Pt(x, y) == [x |-> x, y |-> y]

TrailAcross == <<Pt(0, 20), Pt(10, 20), Pt(20, 20)>>  \* two segments through the left lane
TrailHigh == <<Pt(15, 10), Pt(35, 10)>>                \* one segment high across the right lane

TrailPoint == <<Pt(10, 20)>>                           \* a single point in the left lane

Pointers ==
  { [trail |-> <<>>,        isSwiping |-> FALSE],
    [trail |-> TrailAcross, isSwiping |-> FALSE],
    [trail |-> TrailPoint,  isSwiping |-> TRUE],
    [trail |-> TrailAcross, isSwiping |-> TRUE],
    [trail |-> TrailHigh,   isSwiping |-> TRUE] }

----------------------------------------------------------------------------
(* Record of what the last step did (history, not program state)           *)

NoEvent ==
  [kind |-> "none", timerKind |-> "none", timerRun |-> 0,
   sliceCalls |-> 0, removed |-> 0, specialCalls |-> 0, bombCalls |-> 0, missed |-> 0,
   before |-> [score |-> 0, lives |-> 0, combo |-> 0, maxCombo |-> 0,
               fruitsSliced |-> 0, highScore |-> 0],
   mid |-> [score |-> 0, lives |-> 0, combo |-> 0, maxCombo |-> 0,
            fruitsSliced |-> 0, highScore |-> 0],
   storedBefore |-> 0, writes |-> 0, stateBefore |-> "menu", immune |-> FALSE,
   swiping |-> FALSE, trailLen |-> 0, bombHit |-> FALSE, spawned |-> FALSE,
   type |-> "none", gap |-> 0, chain |-> 0, chainIncl |-> 0,
   effectPending |-> FALSE, flagBefore |-> FALSE, effect |-> "none",
   midState |-> "menu", untouched |-> TRUE, overlap |-> FALSE, bothHit |-> FALSE,
   reached |-> {}, touched |-> {},
   batch |-> FALSE, since |-> 0, waveBefore |-> 0, counterBefore |-> 0,
   scheduled |-> 0, bombSpawns |-> 0, specialSpawns |-> 0,
   criticalRaised |-> 0, announced |-> 0,
   specialRemoved |-> 0, comboTimeKept |-> TRUE,
   halvesAdded |-> 0, halvesPaired |-> TRUE, halvesExpired |-> 0, halvesRemoved |-> 0]

\* the number of pending timers of the kind
CountTimers(tms, kind) == Cardinality({i \in DOMAIN tms : tms[i].kind = kind})

\* an effect-expiry timer is pending
EffectPending(tms) == \E i \in DOMAIN tms : tms[i].kind = "effectOff"

PendingSpawns(w) ==
  Cardinality({i \in DOMAIN w.timers : w.timers[i].kind \in {"spawnFruit", "frenzyFruit"}})

WithinBounds(w) ==
  /\ Len(w.fruits) + PendingSpawns(w) <= MaxFruits
  /\ Len(w.bombs) <= MaxBombs
  /\ Len(w.specialFruits) <= MaxSpecials

----------------------------------------------------------------------------
(* useHandTracking: the refs and the state the game loop reads.  lost and  *)
(* the event count are history: lost holds from a result without a hand    *)
(* that arrived with no button held until a point is pushed on the trail;  *)
(* at/count bound the events explored at one clock value.                  *)

NoPosition == [x |-> 0, y |-> 0, timestamp |-> 0]   \* lastPositionRef.current = null

NoTracker ==
  [trail |-> <<>>, isSwiping |-> FALSE, isMouseDown |-> FALSE,
   handTrackingActive |-> FALSE, useMouseFallback |-> FALSE,
   lastPosition |-> NoPosition, lost |-> FALSE, at |-> 0, count |-> 0]

\* velocity > VELOCITY_THRESHOLD, velocity = sqrt(dx*dx + dy*dy) / (dt / 16.67)
\* with dt = max(1, now - timestamp).  A cell is 5 px, so with the distance
\* in cells the test reads sqrt(d2) * 16.67 > dt, squared and cleared of
\* fractions d2 * 1667^2 > 100^2 * dt^2; beyond dt^2 = 214748 the right side
\* exceeds every left side of the exploration.
Fast(tk, pos, t) ==
  LET dx == pos.x - tk.lastPosition.x
      dy == pos.y - tk.lastPosition.y
      dt == Max(1, t - tk.lastPosition.timestamp)
  IN  /\ tk.lastPosition # NoPosition
      /\ dt * dt <= 214748
      /\ (dx * dx + dy * dy) * 2778889 > 10000 * dt * dt

\* variant: a full buffer is not shifted
Push_NoShift(tr, pos, t) ==
  Append(tr, [x |-> pos.x, y |-> pos.y, timestamp |-> t])

\* trailRef.current.push({ x, y, timestamp: now }); if (length > TRAIL_LENGTH) shift()
Push(tr, pos, t) ==
  LET longer == Append(tr, [x |-> pos.x, y |-> pos.y, timestamp |-> t])
  IN  IF Len(longer) > TRAIL_LENGTH THEN Tail(longer) ELSE longer

\* onResults with a hand in the picture, fingertip at pos
onResultsHand(tk, pos, t) ==
  [tk EXCEPT !.handTrackingActive = TRUE,
             !.lastPosition = [x |-> pos.x, y |-> pos.y, timestamp |-> t],
             !.trail = Push(@, pos, t),
             !.isSwiping = Fast(tk, pos, t),
             !.lost = FALSE]

\* variant: a result without a hand keeps the trail
NoHandTrail_Keeps(tk) == tk.trail

\* if (!isMouseDownRef.current) trailRef.current = []
NoHandTrail(tk) == IF ~tk.isMouseDown THEN <<>> ELSE tk.trail

\* onResults without a hand
onResultsNoHand(tk) ==
  [tk EXCEPT !.handTrackingActive = FALSE,
             !.trail = NoHandTrail(tk),
             !.lost = IF ~tk.isMouseDown THEN TRUE ELSE @]

handlePointerDown(tk) ==
  [tk EXCEPT !.isMouseDown = TRUE, !.trail = <<>>]

handlePointerUp(tk) ==
  [tk EXCEPT !.isMouseDown = FALSE, !.isSwiping = FALSE,
             !.trail = IF ~tk.handTrackingActive THEN <<>> ELSE @]

\* mousemove (touch = FALSE) or touchmove (touch = TRUE) at pos
handlePointerMove(tk, pos, touch, t) ==
  LET isActive == tk.isMouseDown \/ touch
  IN  [tk EXCEPT !.lastPosition = [x |-> pos.x, y |-> pos.y, timestamp |-> t],
                 !.trail = IF isActive THEN Push(@, pos, t) ELSE @,
                 !.lost = IF isActive THEN FALSE ELSE @,
                 !.isSwiping = IF tk.useMouseFallback \/ isActive \/ ~tk.handTrackingActive
                               THEN isActive /\ Fast(tk, pos, t) ELSE @]

----------------------------------------------------------------------------
(* js/game.js and the main loop that drives it (plain-JavaScript build).   *)
(* game is the Game object.  pending holds the gameOver callbacks armed by *)
(* sliceBomb that have not run yet, each with its due time and, as         *)
(* history, the number of the run that armed it; run counts the start()    *)
(* calls.                                                                  *)

GAME_OVER_DELAY == 500     \* setTimeout(() => { this.gameOver(); }, 500)
COMBO_WINDOW_JS == 500     \* this.comboWindow
FRUIT_POINTS_JS == 1       \* points of every fruit type of js/fruit.js

\* the Game object when initGame has shown the menu
NoGame ==
  [state |-> "menu", score |-> 0, lives |-> 3, maxLives |-> 3, bestScore |-> 0,
   comboCount |-> 0, comboTimer |-> 0, fruitsSliced |-> 0, pending |-> <<>>, run |-> 0]

Game_start(g) ==
  [g EXCEPT !.score = 0, !.lives = g.maxLives, !.comboCount = 0, !.comboTimer = 0,
            !.fruitsSliced = 0, !.state = "playing", !.run = @ + 1]

\* update(deltaTime): the combo timer
Game_update(g, deltaTime) ==
  IF g.state # "playing" THEN g
  ELSE IF g.comboTimer > 0
       THEN [g EXCEPT !.comboTimer = @ - deltaTime,
                      !.comboCount = IF g.comboTimer - deltaTime <= 0 THEN 0 ELSE @]
       ELSE g

Game_sliceFruit(g) ==
  LET count == g.comboCount + 1
      points == IF count >= 2 THEN count ELSE FRUIT_POINTS_JS
  IN  [g EXCEPT !.fruitsSliced = @ + 1, !.comboCount = count,
                !.comboTimer = COMBO_WINDOW_JS, !.score = @ + points]

Game_sliceBomb(g, t) ==
  [g EXCEPT !.pending = Append(@, [due |-> t + GAME_OVER_DELAY, run |-> g.run])]

Game_gameOver(g) ==
  IF g.state = "gameOver" THEN g
  ELSE [g EXCEPT !.bestScore = IF g.score > g.bestScore THEN g.score ELSE @,
                 !.state = "gameOver"]

Game_missFruit(g) ==
  LET g1 == [g EXCEPT !.lives = @ - 1]
  IN  IF g1.lives <= 0 THEN Game_gameOver(g1) ELSE g1

\* missed.forEach(() => { game.missFruit(); })
RECURSIVE MissEach(_, _)
MissEach(g, n) == IF n = 0 THEN g ELSE MissEach(Game_missFruit(g), n - 1)

\* checkCollisions() of the main loop: hit.fruits fruits and, if hit.bomb, a
\* bomb are under the blade
Main_checkCollisions(g, hit, t) ==
  LET g1 == IF hit.fruits > 0 THEN Game_sliceFruit(g) ELSE g
  IN  IF hit.bomb THEN Game_sliceBomb(g1, t) ELSE g1

\* update(deltaTime) of the main loop; hit.missed fruits have left the screen
Main_update(g, deltaTime, hit, t) ==
  LET g1 == Game_update(g, deltaTime)
  IN  IF g1.state = "playing"
      THEN MissEach(Main_checkCollisions(g1, hit, t), hit.missed)
      ELSE g1

\* startGame() of the main loop
Main_startGame(g) == Game_start(g)

(***************************************************************************)
(* GestureButton (src/unnamed/part_000): a button the tracked hand         *)
(* activates by dwelling on it.  x, y, isTracking, disabled and onActivate *)
(* are its props (onActivate as the identity of the callback), isHovering  *)
(* and progress its state, timer (an animation frame is requested),        *)
(* startTime (0 for null) and hasActivated its refs.  hoverSince, dwellActs*)
(* (dwell activations since isHovering last became true), lastAct,         *)
(* lastActAt and actedDisabled record its history.  The effects of one     *)
(* render are taken together with the change of props that caused it.      *)
(***************************************************************************)
DWELL_TIME == 600
HOVER_PADDING == 10

\* getBoundingClientRect of the button
ButtonRect == [left |-> 100, right |-> 200, top |-> 100, bottom |-> 140]

NoButton ==
  [x |-> 0, y |-> 0, isTracking |-> FALSE, disabled |-> FALSE, onActivate |-> 0,
   isHovering |-> FALSE, progress |-> 0,
   timer |-> FALSE, startTime |-> 0, hasActivated |-> FALSE,
   hoverSince |-> 0, dwellActs |-> 0,
   lastAct |-> "none", lastActAt |-> 0, actedDisabled |-> FALSE]

\* onActivate() called by the dwell timer or by a click at time t
Button_onActivate(b, how, t) ==
  [b EXCEPT !.lastAct = how, !.lastActAt = t,
            !.actedDisabled = b.actedDisabled \/ b.disabled,
            !.dwellActs = IF how = "dwell" THEN b.dwellActs + 1 ELSE b.dwellActs]

\* the value the hover effect passes to setIsHovering
Button_hovering(b) ==
  IF b.disabled THEN FALSE
  ELSE IF ~b.isTracking THEN FALSE
  ELSE /\ b.x >= ButtonRect.left - HOVER_PADDING
       /\ b.x <= ButtonRect.right + HOVER_PADDING
       /\ b.y >= ButtonRect.top - HOVER_PADDING
       /\ b.y <= ButtonRect.bottom + HOVER_PADDING

\* effect on [isHovering]: the activation flag is reset when the hand left
Button_resetEffect(b) ==
  IF ~b.isHovering THEN [b EXCEPT !.hasActivated = FALSE] ELSE b

\* effect on [isHovering, disabled, dwellTime, onActivate]: the cleanup of
\* the previous run cancels the requested frame, then the timer is started
\* or stopped
Button_dwellEffect(b, t) ==
  IF b.isHovering /\ ~b.disabled /\ ~b.hasActivated
  THEN [b EXCEPT !.startTime = t, !.timer = TRUE]
  ELSE [b EXCEPT !.timer = FALSE, !.startTime = 0, !.progress = 0]

\* variant: the activation is not latched
Button_updateProgress_NoLatch(b, t) ==
  IF b.startTime = 0 THEN [b EXCEPT !.timer = FALSE]
  ELSE LET elapsed == t - b.startTime
           newProgress == Min((elapsed * 100) \div DWELL_TIME, 100)
       IN  IF elapsed >= DWELL_TIME /\ ~b.hasActivated
           THEN [Button_onActivate(b, "dwell", t) EXCEPT
                   !.progress = 0, !.startTime = 0, !.timer = FALSE]
           ELSE [b EXCEPT !.progress = newProgress, !.timer = TRUE]

\* updateProgress, the animation-frame callback, at time t
Button_updateProgress(b, t) ==
  IF b.startTime = 0 THEN [b EXCEPT !.timer = FALSE]
  ELSE LET elapsed == t - b.startTime
           newProgress == Min((elapsed * 100) \div DWELL_TIME, 100)
       IN  IF elapsed >= DWELL_TIME /\ ~b.hasActivated
           THEN [Button_onActivate([b EXCEPT !.hasActivated = TRUE], "dwell", t) EXCEPT
                   !.progress = 0, !.startTime = 0, !.timer = FALSE]
           ELSE [b EXCEPT !.progress = newProgress, !.timer = TRUE]

\* handleClick
Button_handleClick(b, t) ==
  IF ~b.disabled THEN Button_onActivate(b, "click", t) ELSE b

\* one render with the props of b at time t and the renders its effects
\* cause: the dwell effect runs in the first render when disabled or
\* onActivate changed (depsDwell), the hover effect sets isHovering, and the
\* render that follows a change of isHovering runs the reset effect and the
\* dwell effect
Button_render(b, t, depsDwell) ==
  LET h  == Button_hovering(b)
      b1 == IF depsDwell THEN Button_dwellEffect(b, t) ELSE b
      b2 == [b1 EXCEPT !.isHovering = h,
                       !.hoverSince = IF h THEN t ELSE 0,
                       !.dwellActs = 0]
  IN  IF h = b.isHovering THEN b1
      ELSE Button_dwellEffect(Button_resetEffect(b2), t)

(***************************************************************************)
(* Camera initialization of useHandTracking (src/unnamed/part_004).        *)
(* isLoading, permissionDenied, cameraReady, cameraAttempted and initError *)
(* are its state, isInitializing and the four refs (0 for null, else the   *)
(* number of the attempt whose object the ref holds) its refs.  attempts   *)
(* holds one record per call of initHandTracking: pc is the await at which *)
(* its initPromise stands ("gum" getUserMedia, "play" video.play, "start"  *)
(* camera.start, "done" resolved, "failed" rejected), settled says that    *)
(* its Promise.race is over, timedOut that the timeout won it, deadline    *)
(* when the timeout falls due, streamOn that its media stream exists with  *)
(* live tracks, cameraOn that its camera delivers frames, results the      *)
(* tracking results of its frames.  last records the last camera event.    *)
(* An error is its name and what its message includes.                     *)
(***************************************************************************)
INIT_TIMEOUT == 15000

\* new Error('MediaPipe failed to load. Check your internet connection.')
ErrLibrary ==
  [name |-> "Error", permission |-> FALSE, mediaPipe |-> TRUE, timeout |-> FALSE]

\* new Error('Camera initialization timeout - please try again')
ErrTimeout ==
  [name |-> "Error", permission |-> FALSE, mediaPipe |-> FALSE, timeout |-> TRUE]

\* getUserMedia refused by the user or the browser: "Permission denied" in
\* one browser, "The request is not allowed by the user agent ..." in another
ErrNotAllowed ==
  [name |-> "NotAllowedError", permission |-> TRUE, mediaPipe |-> FALSE, timeout |-> FALSE]

ErrNotAllowedPlain ==
  [name |-> "NotAllowedError", permission |-> FALSE, mediaPipe |-> FALSE, timeout |-> FALSE]

\* getUserMedia without a camera: "Requested device not found"
ErrNotFound ==
  [name |-> "NotFoundError", permission |-> FALSE, mediaPipe |-> FALSE, timeout |-> FALSE]

\* video.play() or camera.start() interrupted
ErrAbort ==
  [name |-> "AbortError", permission |-> FALSE, mediaPipe |-> FALSE, timeout |-> FALSE]

NoError ==
  [name |-> "none", permission |-> FALSE, mediaPipe |-> FALSE, timeout |-> FALSE]

GumErrors == {ErrNotAllowed, ErrNotAllowedPlain, ErrNotFound}

NoCameraEvent == [kind |-> "none", attempt |-> 0, error |-> NoError]

NoCamera ==
  [isLoading |-> FALSE, permissionDenied |-> TRUE, cameraReady |-> FALSE,
   cameraAttempted |-> FALSE, initError |-> "none", isInitializing |-> FALSE,
   videoRef |-> 0, streamRef |-> 0, handsRef |-> 0, cameraRef |-> 0,
   attempts |-> <<>>, last |-> NoCameraEvent]

NewAttempt(t) ==
  [pc |-> "gum", settled |-> FALSE, timedOut |-> FALSE, deadline |-> t + INIT_TIMEOUT,
   streamOn |-> FALSE, cameraOn |-> FALSE, results |-> 0]

\* variant: only the message of the error is looked at
Camera_classify_ByMessage(error) ==
  IF error.permission /\ ~error.mediaPipe THEN "permission"
  ELSE IF error.timeout THEN "timeout"
  ELSE IF error.mediaPipe THEN "mediapipe"
  ELSE "other"

\* the branch the catch block of initHandTracking takes for an error
Camera_classify(error) ==
  LET isPermissionError ==
        \/ error.name = "NotAllowedError"
        \/ error.name = "PermissionDeniedError"
        \/ (error.permission /\ ~error.mediaPipe)
  IN  IF isPermissionError THEN "permission"
      ELSE IF error.timeout THEN "timeout"
      ELSE IF error.mediaPipe THEN "mediapipe"
      ELSE "other"

\* streamRef.current.getTracks().forEach(track => track.stop())
Camera_stopStream(c) ==
  IF c.streamRef # 0
  THEN [c EXCEPT !.attempts[c.streamRef].streamOn = FALSE, !.streamRef = 0]
  ELSE c

\* the catch block of initHandTracking
Camera_catch(c, error) ==
  LET c1 == Camera_stopStream(c)
      class == Camera_classify(error)
  IN  [c1 EXCEPT !.permissionDenied = IF class = "permission" THEN TRUE ELSE @,
                 !.initError = class]

\* variant: the finally block leaves the loading flag set
Camera_finally_KeepsLoading(c) ==
  [c EXCEPT !.isInitializing = FALSE]

\* the finally block of requestCamera
Camera_finally(c) ==
  [c EXCEPT !.isInitializing = FALSE, !.isLoading = FALSE]

\* the race of attempt i is lost with error: catch, then finally
Camera_fail(c, i, error) ==
  LET c1 == [c EXCEPT !.attempts[i].settled = TRUE,
                      !.attempts[i].timedOut = (error = ErrTimeout),
                      !.last = [kind |-> "failed", attempt |-> i, error |-> error]]
  IN  Camera_finally(Camera_catch(c1, error))

\* the race of attempt i is won by its initPromise
Camera_succeed(c, i) ==
  LET c1 == [c EXCEPT !.attempts[i].settled = TRUE,
                      !.cameraReady = TRUE, !.initError = "none",
                      !.last = [kind |-> "succeeded", attempt |-> i, error |-> NoError]]
  IN  Camera_finally(c1)

\* the initPromise of attempt i rejects with error: the rejection reaches
\* the catch block unless the race is over
Camera_reject(c, i, error) ==
  LET c1 == [c EXCEPT !.attempts[i].pc = "failed"]
  IN  IF c.attempts[i].settled
      THEN [c1 EXCEPT !.last = [kind |-> "step", attempt |-> i, error |-> error]]
      ELSE Camera_fail(c1, i, error)

\* the clean-up of requestCamera before a new attempt
Camera_cleanUp(c) ==
  LET c1 == IF c.cameraRef # 0
            THEN [c EXCEPT !.attempts[c.cameraRef].cameraOn = FALSE, !.cameraRef = 0]
            ELSE c
      c2 == [c1 EXCEPT !.handsRef = 0, !.videoRef = 0]
  IN  Camera_stopStream(c2)

\* requestCamera at time t; libraryLoaded says that window.Hands and
\* window.Camera are functions
Camera_requestCamera(c, libraryLoaded, t) ==
  IF c.permissionDenied /\ c.initError = "permission"
  THEN [c EXCEPT !.last = [kind |-> "blocked", attempt |-> 0, error |-> NoError]]
  ELSE IF c.isInitializing \/ c.isLoading
  THEN [c EXCEPT !.last = [kind |-> "blocked", attempt |-> 0, error |-> NoError]]
  ELSE LET i  == Len(c.attempts) + 1
           c1 == [c EXCEPT !.cameraAttempted = TRUE, !.isInitializing = TRUE,
                           !.isLoading = TRUE, !.permissionDenied = FALSE,
                           !.cameraReady = FALSE, !.initError = "none"]
           c2 == Camera_cleanUp(c1)
           c3 == [c2 EXCEPT !.attempts = Append(@, NewAttempt(t)),
                            !.last = [kind |-> "started", attempt |-> i, error |-> NoError]]
       IN  IF libraryLoaded THEN c3 ELSE Camera_reject(c3, i, ErrLibrary)

\* enableMouseFallback
Camera_enableMouseFallback(c) ==
  [c EXCEPT !.permissionDenied = FALSE, !.isLoading = FALSE,
            !.last = [kind |-> "fallback", attempt |-> 0, error |-> NoError]]

\* getUserMedia of attempt i resolves with a stream
Camera_gumResolved(c, i) ==
  [c EXCEPT !.attempts[i].pc = "play", !.attempts[i].streamOn = TRUE,
            !.last = [kind |-> "step", attempt |-> i, error |-> NoError]]

\* video.play() of attempt i resolves: the refs are set, the Hands instance
\* is made and registered, the Camera is made and camera.start() called
Camera_playResolved(c, i) ==
  [c EXCEPT !.attempts[i].pc = "start",
            !.videoRef = i, !.streamRef = i, !.handsRef = i, !.cameraRef = i,
            !.last = [kind |-> "step", attempt |-> i, error |-> NoError]]

\* camera.start() of attempt i resolves: the initPromise is fulfilled
Camera_startResolved(c, i) ==
  LET c1 == [c EXCEPT !.attempts[i].pc = "done", !.attempts[i].cameraOn = TRUE,
                      !.last = [kind |-> "step", attempt |-> i, error |-> NoError]]
  IN  IF c.attempts[i].settled THEN c1 ELSE Camera_succeed(c1, i)

\* the timeout of attempt i fires
Camera_timeout(c, i) ==
  IF c.attempts[i].settled THEN c ELSE Camera_fail(c, i, ErrTimeout)

\* onFrame of the camera of attempt i: a picture is sent if both refs are set
Camera_sends(c, i) ==
  c.attempts[i].cameraOn /\ c.handsRef # 0 /\ c.videoRef # 0

----------------------------------------------------------------------------
(* Initial state: useGameEngine just mounted                               *)

Init ==
  /\ gameState = "menu"
  /\ stored = 0
  /\ stats = [score |-> 0, lives |-> INITIAL_LIVES, combo |-> 0, maxCombo |-> 0,
              fruitsSliced |-> 0, highScore |-> 0]
  /\ fruits = <<>>
  /\ bombs = <<>>
  /\ specialFruits = <<>>
  /\ slicedFruits = <<>>
  /\ particles = <<>>
  /\ scorePopups = <<>>
  /\ bombFlash = FALSE
  /\ activeEffect = "none"
  /\ timeScale = 10
  /\ lastSpawn = 0
  /\ lastComboTime = 0
  /\ waveRef = 1
  /\ effectTimeout = 0
  /\ spawnsSinceSpecial = 0
  /\ currentWave = 1
  /\ showWaveAnnouncement = FALSE
  /\ criticalFlash = FALSE
  /\ timers = <<>>
  /\ now = Epoch
  /\ frameReady = FALSE
  /\ crashed = FALSE
  /\ tracker = NoTracker
  /\ run = 0
  /\ game = NoGame
  /\ button = NoButton
  /\ camera = NoCamera
  /\ gameOverCount = 0
  /\ ev = NoEvent

----------------------------------------------------------------------------
(* Actions                                                                 *)

\* the clock advances by one of dts to the time of the next frame callback,
\* once the callback of the current frame has run
TickBy(dts, horizon) ==
  /\ ~crashed
  /\ ~frameReady
  /\ gameState = "playing" \/ timers # <<>>
  /\ \A i \in DOMAIN timers : timers[i].due > now
  /\ \E dt \in dts :
       /\ now + dt <= Epoch + horizon
       /\ now' = now + dt
  /\ frameReady' = TRUE
  /\ ev' = NoEvent
  /\ UNCHANGED <<gameState, stats, stored, fruits, bombs, specialFruits, slicedFruits,
                 particles, scorePopups, bombFlash, activeEffect, timeScale, lastSpawn,
                 lastComboTime, waveRef, effectTimeout, spawnsSinceSpecial, currentWave,
                 showWaveAnnouncement, criticalFlash, timers,
                 crashed, tracker, run, gameOverCount>>
  /\ UNCHANGED <<game, button, camera>>

Tick == TickBy(DtSet, Horizon)

\* the fruits of list that the physics pass moves below the lower bound
CountMissed(list, ts) ==
  Cardinality({i \in DOMAIN list : FruitMissed(Move(list[i], ts))})

\* the indices of the trail segments checkCollisions looks at (the last four)
CheckedSegments(tr) == Max(1, Len(tr) - 4)..(Len(tr) - 1)

\* a checked segment of an active swipe intersects a live bomb
BombUnderBlade(list, p) ==
  /\ p.isSwiping
  /\ \E i \in CheckedSegments(p.trail), j \in DOMAIN list :
       ~list[j].sliced /\ HitsBomb(p.trail[i], p.trail[i + 1], list[j])

\* the point pt lies within the hitbox (the radius times num / HIT_DEN) of e
Inside(pt, e, num) ==
  HIT_DEN * HIT_DEN * ((pt.x - e.x) * (pt.x - e.x) + (pt.y - e.y) * (pt.y - e.y))
    <= (num * e.radius) * (num * e.radius)

\* some point of the trail lies within the hitbox of a live entity
UnderTrail(snap, tr) ==
  \E i \in DOMAIN tr :
    \/ \E j \in DOMAIN snap.fruits :
         ~snap.fruits[j].sliced /\ Inside(tr[i], snap.fruits[j], FRUIT_HIT_NUM)
    \/ \E j \in DOMAIN snap.specialFruits :
         Inside(tr[i], snap.specialFruits[j], SPECIAL_HIT_NUM)
    \/ \E j \in DOMAIN snap.bombs :
         ~snap.bombs[j].sliced /\ Inside(tr[i], snap.bombs[j], BOMB_HIT_NUM)

\* one checked segment of an active swipe intersects a live fruit and a live bomb
FruitAndBombUnderBlade(snap, p) ==
  /\ p.isSwiping
  /\ \E i \in CheckedSegments(p.trail) :
       /\ \E j \in DOMAIN snap.fruits :
            ~snap.fruits[j].sliced /\ HitsFruit(p.trail[i], p.trail[i + 1], snap.fruits[j])
       /\ \E j \in DOMAIN snap.bombs :
            ~snap.bombs[j].sliced /\ HitsBomb(p.trail[i], p.trail[i + 1], snap.bombs[j])

\* the halves the collision pass has added to those of snap come in pairs:
\* a left and a right half of opposite spin, created at the time t at the
\* position of a fruit of snap
HalvesPaired(snap, w1, t) ==
  LET old == Len(snap.slicedFruits)
      added == SubSeq(w1.slicedFruits, old + 1, Len(w1.slicedFruits))
  IN  /\ SubSeq(w1.slicedFruits, 1, old) = snap.slicedFruits
      /\ Len(added) % 2 = 0
      /\ \A k \in 1..(Len(added) \div 2) :
           LET l == added[2 * k - 1]
               r == added[2 * k]
           IN  /\ l.half = "left" /\ r.half = "right"
               /\ l.rotationSpeed # 0 /\ l.rotationSpeed + r.rotationSpeed = 0
               /\ l.createdAt = t /\ r.createdAt = t
               /\ \E j \in DOMAIN snap.fruits :
                    /\ l.x = snap.fruits[j].x /\ l.y = snap.fruits[j].y
                    /\ r.x = snap.fruits[j].x /\ r.y = snap.fruits[j].y

\* the halves of list that are SLICED_FRUIT_LIFETIME old or older at the time t
Expired(list, t) ==
  Cardinality({i \in DOMAIN list : t - list[i].createdAt >= SLICED_FRUIT_LIFETIME})

\* what a frame that simulated leaves in ev
FrameEvent(snap, w1, w2, p) ==
  [NoEvent EXCEPT !.kind = "frame",
                  !.sliceCalls = w1.sliceCalls,
                  !.removed = Len(snap.fruits) - Len(w1.fruits),
                  !.specialCalls = w1.specialCalls,
                  !.bombCalls = w1.bombCalls,
                  !.missed = CountMissed(w1.fruits, snap.timeScale),
                  !.bombHit = BombUnderBlade(snap.bombs, p),
                  !.before = snap.stats,
                  !.mid = w1.stats,
                  !.storedBefore = snap.stored,
                  !.writes = w2.writes,
                  !.stateBefore = "playing",
                  !.immune = (snap.activeEffect = "frenzy"),
                  !.swiping = p.isSwiping,
                  !.trailLen = Len(p.trail),
                  !.effect = snap.activeEffect,
                  !.midState = w1.gameState,
                  !.untouched = (w1 = snap),
                  !.overlap = UnderTrail(snap, p.trail),
                  !.bothHit = FruitAndBombUnderBlade(snap, p),
                  !.batch = (w2.lastSpawn # w1.lastSpawn),
                  !.since = now - snap.lastSpawn,
                  !.waveBefore = snap.waveRef,
                  !.counterBefore = snap.spawnsSinceSpecial,
                  !.scheduled = CountTimers(w2.timers, "spawnFruit")
                                  - CountTimers(w1.timers, "spawnFruit"),
                  !.bombSpawns = w2.bombSpawns,
                  !.specialSpawns = w2.specialSpawns,
                  !.criticalRaised = CountTimers(w2.timers, "criticalFlashOff")
                                       - CountTimers(w1.timers, "criticalFlashOff"),
                  !.announced = CountTimers(w2.timers, "waveOff")
                                  - CountTimers(w1.timers, "waveOff"),
                  !.specialRemoved = Len(snap.specialFruits) - Len(w1.specialFruits),
                  !.comboTimeKept = (w1.lastComboTime = snap.lastComboTime),
                  !.halvesAdded = Len(w1.slicedFruits) - Len(snap.slicedFruits),
                  !.halvesPaired = HalvesPaired(snap, w1, now),
                  !.halvesExpired = Expired(w1.slicedFruits, now),
                  !.halvesRemoved = Len(w1.slicedFruits) - Len(w2.slicedFruits)]

\* the Rolls of a frame that starts no spawn batch are not used
NoRoll == [critical |-> FALSE, criticalCount |-> 4, fruitCount |-> 1,
           bomb |-> FALSE, special |-> FALSE]

\* localStorage.setItem throws inside a setStats updater.  No try/catch
\* surrounds the call and the application has no error boundary: React meets
\* the exception while it applies the queued updaters and unmounts the
\* component tree.  None of the updates queued with the failing one is
\* committed, and no callback of the game runs afterwards.
Crash(e) ==
  /\ crashed' = TRUE
  /\ ev' = [e EXCEPT !.kind = "crash"]
  /\ UNCHANGED <<gameState, stats, stored, fruits, bombs, specialFruits, slicedFruits,
                 particles, scorePopups, bombFlash, activeEffect, timeScale, lastSpawn,
                 lastComboTime, waveRef, effectTimeout, spawnsSinceSpecial, currentWave,
                 showWaveAnnouncement, criticalFlash, timers, gameOverCount>>

\* checkCollisions(trail, isSwiping); updatePhysics()
Simulate(snap, p, rnd) ==
  \E w1 \in {checkCollisions(snap, snap, p.trail, p.isSwiping, now, run)} :
  \E w2 \in {updatePhysics(w1, snap, now, run, rnd)} :
      /\ WithinBounds(w2)
      /\ \/ /\ Install(w2)
            /\ gameOverCount' = IF w2.gameState = "gameover" THEN gameOverCount + 1
                                ELSE gameOverCount
            /\ ev' = FrameEvent(snap, w1, w2, p)
            /\ crashed' = FALSE
         \/ /\ w2.writes > 0
            /\ Crash(FrameEvent(snap, w1, w2, p))

\* whether updatePhysics will start a spawn batch in this frame
BatchDue == now - lastSpawn > SpawnInterval(waveRef) /\ activeEffect # "frenzy"

\* variant: the loop simulates whatever gameState is
FrameOn_AlwaysSimulates(ptrs) ==
  /\ ~crashed
  /\ frameReady
  /\ \A i \in DOMAIN timers : timers[i].due > now
  /\ frameReady' = FALSE
  /\ UNCHANGED <<now, run, tracker>>
  /\ UNCHANGED <<game, button, camera>>
  /\ \E p \in ptrs, snap \in {World} :
       IF BatchDue
       THEN \E rnd \in Rolls(waveRef) : Simulate(snap, p, rnd)
       ELSE Simulate(snap, p, NoRoll)

\* gameLoop: one requestAnimationFrame callback; ptrs are the values of
\* (getTrail(), isSwiping) it may observe
FrameOn(ptrs) ==
  /\ ~crashed
  /\ frameReady
  /\ \A i \in DOMAIN timers : timers[i].due > now
  /\ frameReady' = FALSE
  /\ UNCHANGED <<now, run, tracker>>
  /\ UNCHANGED <<game, button, camera>>
  /\ IF gameState = "playing"
     THEN \E p \in ptrs, snap \in {World} :
            IF BatchDue
            THEN \E rnd \in Rolls(waveRef) : Simulate(snap, p, rnd)
            ELSE Simulate(snap, p, NoRoll)
     ELSE /\ ev' = [NoEvent EXCEPT !.kind = "frame", !.stateBefore = gameState,
                                   !.before = stats, !.mid = stats, !.storedBefore = stored]
          /\ UNCHANGED <<gameState, stats, stored, fruits, bombs, specialFruits, slicedFruits,
                         particles, scorePopups, bombFlash, activeEffect, timeScale, lastSpawn,
                         lastComboTime, waveRef, effectTimeout, spawnsSinceSpecial,
                         currentWave, showWaveAnnouncement, criticalFlash, timers,
                         crashed, gameOverCount>>

Frame == FrameOn(Pointers)

\* the pending timer that fires next: the earliest due, the first armed among equals
NextTimer ==
  CHOOSE i \in DOMAIN timers :
    \A j \in DOMAIN timers :
      timers[i].due < timers[j].due \/ (timers[i].due = timers[j].due /\ i <= j)

RemoveAt(seq, i) == SubSeq(seq, 1, i - 1) \o SubSeq(seq, i + 1, Len(seq))

\* a setTimeout callback runs
TimerFire ==
  /\ ~crashed
  /\ timers # <<>>
  /\ timers[NextTimer].due <= now
  /\ LET tm == timers[NextTimer]
         w0 == [World EXCEPT !.timers = RemoveAt(@, NextTimer)]
     IN  /\ \/ /\ tm.kind = "spawnFruit"
               /\ \E f \in FruitRolls :
                    Install(spawnFruit(w0, f.type, f.x, f.vy, tm.run))
            \/ /\ tm.kind = "frenzyFruit"
               /\ IF tm.captured = "playing"
                  THEN \E f \in FruitRolls :
                         Install(spawnFruit(w0, f.type, f.x, f.vy, tm.run))
                  ELSE Install(w0)
            \/ /\ tm.kind = "bombFlashOff"
               /\ Install([w0 EXCEPT !.bombFlash = FALSE])
            \/ /\ tm.kind = "criticalFlashOff"
               /\ Install([w0 EXCEPT !.criticalFlash = FALSE])
            \/ /\ tm.kind = "waveOff"
               /\ Install([w0 EXCEPT !.showWaveAnnouncement = FALSE])
            \/ /\ tm.kind = "effectOff"
               /\ Install([w0 EXCEPT !.activeEffect = "none", !.timeScale = 10])
         /\ ev' = [NoEvent EXCEPT !.kind = "timer", !.timerKind = tm.kind, !.timerRun = tm.run,
                                  !.stateBefore = gameState, !.before = stats, !.mid = stats,
                                  !.storedBefore = stored,
                                  !.flagBefore = showWaveAnnouncement,
                                  !.effect = activeEffect,
                                  !.waveBefore = waveRef,
                                  !.counterBefore = spawnsSinceSpecial,
                                  !.spawned = (Len(fruits') > Len(fruits))]
  /\ UNCHANGED <<now, frameReady, crashed, tracker, run, gameOverCount>>
  /\ UNCHANGED <<game, button, camera>>

ResetCollections(w) ==
  [w EXCEPT !.fruits = <<>>, !.bombs = <<>>, !.specialFruits = <<>>,
            !.slicedFruits = <<>>, !.particles = <<>>, !.scorePopups = <<>>]

\* variant: the stats updater does not carry the high score over
startGame_ResetsHighScore(w) ==
  LET w1 == IF w.effectTimeout # 0 THEN clearTimeout(w, w.effectTimeout) ELSE w
      w2 == [w1 EXCEPT !.activeEffect = "none", !.timeScale = 10,
                       !.gameState = "playing",
                       !.stats = [score |-> 0, lives |-> INITIAL_LIVES, combo |-> 0,
                                  maxCombo |-> 0, fruitsSliced |-> 0, highScore |-> 0]]
  IN  [ResetCollections(w2) EXCEPT !.lastSpawn = 0, !.lastComboTime = 0, !.waveRef = 1,
                                    !.spawnsSinceSpecial = 0, !.currentWave = 1,
                                    !.showWaveAnnouncement = FALSE, !.criticalFlash = FALSE]

\* variant: the combo streak and the time of the last slice are kept
startGame_KeepsStreak(w) ==
  LET w1 == IF w.effectTimeout # 0 THEN clearTimeout(w, w.effectTimeout) ELSE w
      w2 == [w1 EXCEPT !.activeEffect = "none", !.timeScale = 10,
                       !.gameState = "playing",
                       !.stats = [score |-> 0, lives |-> INITIAL_LIVES, combo |-> w.stats.combo,
                                  maxCombo |-> 0, fruitsSliced |-> 0,
                                  highScore |-> w.stats.highScore]]
  IN  [ResetCollections(w2) EXCEPT !.lastSpawn = 0, !.waveRef = 1,
                                    !.spawnsSinceSpecial = 0, !.currentWave = 1,
                                    !.showWaveAnnouncement = FALSE, !.criticalFlash = FALSE]

\* variant: the pending effect-expiry timer is not cleared
startGame_NoClear(w) ==
  LET w2 == [w EXCEPT !.activeEffect = "none", !.timeScale = 10,
                      !.gameState = "playing",
                      !.stats = [score |-> 0, lives |-> INITIAL_LIVES, combo |-> 0,
                                 maxCombo |-> 0, fruitsSliced |-> 0,
                                 highScore |-> w.stats.highScore]]
  IN  [ResetCollections(w2) EXCEPT !.lastSpawn = 0, !.lastComboTime = 0, !.waveRef = 1,
                                    !.spawnsSinceSpecial = 0, !.currentWave = 1,
                                    !.showWaveAnnouncement = FALSE, !.criticalFlash = FALSE]

startGame(w) ==
  LET w1 == IF w.effectTimeout # 0 THEN clearTimeout(w, w.effectTimeout) ELSE w
      w2 == [w1 EXCEPT !.activeEffect = "none", !.timeScale = 10,
                       !.gameState = "playing",
                       !.stats = [score |-> 0, lives |-> INITIAL_LIVES, combo |-> 0,
                                  maxCombo |-> 0, fruitsSliced |-> 0,
                                  highScore |-> w.stats.highScore]]
  IN  [ResetCollections(w2) EXCEPT !.lastSpawn = 0, !.lastComboTime = 0, !.waveRef = 1,
                                    !.spawnsSinceSpecial = 0, !.currentWave = 1,
                                    !.showWaveAnnouncement = FALSE, !.criticalFlash = FALSE]

\* variant: the time scale is left as the run ended
returnToMenu_KeepsScale(w) ==
  LET w1 == IF w.effectTimeout # 0 THEN clearTimeout(w, w.effectTimeout) ELSE w
  IN  ResetCollections([w1 EXCEPT !.activeEffect = "none", !.gameState = "menu"])

\* variant: the menu button resumes play instead of leaving the game
returnToMenu_Resumes(w) ==
  LET w1 == IF w.effectTimeout # 0 THEN clearTimeout(w, w.effectTimeout) ELSE w
  IN  ResetCollections([w1 EXCEPT !.activeEffect = "none", !.timeScale = 10,
                                  !.gameState = "playing"])

returnToMenu(w) ==
  LET w1 == IF w.effectTimeout # 0 THEN clearTimeout(w, w.effectTimeout) ELSE w
  IN  ResetCollections([w1 EXCEPT !.activeEffect = "none", !.timeScale = 10,
                                  !.gameState = "menu"])

\* the start button of the menu screen, the restart button of the game-over screen
StartGame ==
  /\ ~crashed
  /\ gameState \in {"menu", "gameover"}
  /\ run < MaxRuns
  /\ Install(startGame(World))
  /\ run' = run + 1
  /\ gameOverCount' = 0
  /\ ev' = [NoEvent EXCEPT !.kind = "start", !.stateBefore = gameState, !.before = stats,
                           !.mid = stats, !.storedBefore = stored,
                           !.effectPending = EffectPending(timers),
                           !.effect = activeEffect]
  /\ UNCHANGED <<now, frameReady, crashed, tracker>>
  /\ UNCHANGED <<game, button, camera>>

\* the menu button of the game-over screen
ReturnToMenu ==
  /\ ~crashed
  /\ gameState = "gameover"
  /\ Install(returnToMenu(World))
  /\ ev' = [NoEvent EXCEPT !.kind = "menu", !.stateBefore = gameState, !.before = stats,
                           !.mid = stats, !.storedBefore = stored,
                           !.effectPending = EffectPending(timers),
                           !.effect = activeEffect]
  /\ UNCHANGED <<now, frameReady, crashed, tracker, run, gameOverCount>>
  /\ UNCHANGED <<game, button, camera>>

Next == Tick \/ Frame \/ TimerFire \/ StartGame \/ ReturnToMenu

Spec == Init /\ [][Next]_vars

----------------------------------------------------------------------------
(* Slice chains.  sliceFruit driven directly: a fruit is spawned, the      *)
(* clock advances by a gap and the fruit is sliced, up to MaxSlices times  *)
(* in one run.  The i-th fruit of the run has the i-th type of FRUIT_TYPES *)
(* (cyclically).  ev.chain counts the slices since the last gap of         *)
(* COMBO_WINDOW or more, ev.chainIncl those since the last gap of more     *)
(* than COMBO_WINDOW.                                                      *)

NthType(i) == FRUIT_TYPES[((i - 1) % Len(FRUIT_TYPES)) + 1]

\* the state after the first startGame
ChainInit ==
  /\ gameState = "playing"
  /\ stored = 0
  /\ stats = [score |-> 0, lives |-> INITIAL_LIVES, combo |-> 0, maxCombo |-> 0,
              fruitsSliced |-> 0, highScore |-> 0]
  /\ fruits = <<>>
  /\ bombs = <<>>
  /\ specialFruits = <<>>
  /\ slicedFruits = <<>>
  /\ particles = <<>>
  /\ scorePopups = <<>>
  /\ bombFlash = FALSE
  /\ activeEffect = "none"
  /\ timeScale = 10
  /\ lastSpawn = 0
  /\ lastComboTime = 0
  /\ waveRef = 1
  /\ effectTimeout = 0
  /\ spawnsSinceSpecial = 0
  /\ currentWave = 1
  /\ showWaveAnnouncement = FALSE
  /\ criticalFlash = FALSE
  /\ timers = <<>>
  /\ now = Epoch
  /\ frameReady = FALSE
  /\ crashed = FALSE
  /\ tracker = NoTracker
  /\ run = 1
  /\ game = NoGame
  /\ button = NoButton
  /\ camera = NoCamera
  /\ gameOverCount = 0
  /\ ev = NoEvent

\* spawnFruit() puts the next fruit of the chain into play, up to n in one run
ChainSpawnUpTo(n) ==
  /\ ~crashed
  /\ gameState = "playing"
  /\ fruits = <<>>
  /\ stats.fruitsSliced < n
  /\ Install(spawnFruit(World, NthType(stats.fruitsSliced + 1), 10, -5, run))
  /\ ev' = [ev EXCEPT !.kind = "spawn"]
  /\ UNCHANGED <<now, frameReady, crashed, tracker, run, gameOverCount>>
  /\ UNCHANGED <<game, button, camera>>

\* sliceFruit(fruit, angle) on the fruit in play, gap ms after the previous
\* slice, gap one of gaps
ChainSliceAfter(gaps) ==
  /\ ~crashed
  /\ gameState = "playing"
  /\ fruits # <<>>
  /\ \E gap \in gaps :
       LET w == sliceFruit(World, fruits[1], now + gap)
       IN  /\ now' = now + gap
           /\ \/ /\ Install(w)
                 /\ crashed' = FALSE
                 /\ ev' = [NoEvent EXCEPT
                      !.kind = "slice", !.type = fruits[1].type, !.gap = gap,
                      !.before = stats, !.mid = stats, !.storedBefore = stored,
                      !.stateBefore = gameState, !.sliceCalls = 1, !.removed = 1,
                      !.chain = IF ev.chain > 0 /\ gap < COMBO_WINDOW
                                THEN ev.chain + 1 ELSE 1,
                      !.chainIncl = IF ev.chainIncl > 0 /\ gap <= COMBO_WINDOW
                                    THEN ev.chainIncl + 1 ELSE 1]
              \/ /\ w.writes > 0
                 /\ Crash(NoEvent)
  /\ UNCHANGED <<frameReady, tracker, run, gameOverCount>>
  /\ UNCHANGED <<game, button, camera>>

ChainSpawn == ChainSpawnUpTo(MaxSlices)

ChainSlice == ChainSliceAfter(Gaps)

ChainNext == ChainSpawn \/ ChainSlice

ChainSpec == ChainInit /\ [][ChainNext]_vars

----------------------------------------------------------------------------
(* Wave announcements across a restart.  The exploration starts late in a  *)
(* first run: ten fruits have been sliced since the last spawn batch, one  *)
(* life is left and an apple is about to fall out of the screen.  Frames   *)
(* are WaveDt apart and the blade, when it swipes, zigzags three times     *)
(* across both lanes.                                                     *)

WaveDt == 300
TrailComb == <<Pt(5, 20), Pt(25, 20), Pt(5, 20), Pt(25, 20)>>
WavePointers ==
  { [trail |-> <<>>,      isSwiping |-> FALSE],
    [trail |-> TrailComb, isSwiping |-> TRUE] }

WaveInit ==
  /\ gameState = "playing"
  /\ stored = 10
  /\ stats = [score |-> 10, lives |-> 1, combo |-> 1, maxCombo |-> 2,
              fruitsSliced |-> 10, highScore |-> 10]
  /\ fruits = <<[id |-> 1, type |-> "apple", x |-> 10, y |-> canvasHeight + SPAWN_MARGIN,
                 velocityX |-> 0, velocityY |-> 2 * GRAVITY,
                 radius |-> FruitRadius("apple"), sliced |-> FALSE, run |-> 1]>>
  /\ bombs = <<>>
  /\ specialFruits = <<>>
  /\ slicedFruits = <<>>
  /\ particles = <<>>
  /\ scorePopups = <<>>
  /\ bombFlash = FALSE
  /\ activeEffect = "none"
  /\ timeScale = 10
  /\ lastSpawn = Epoch - 1200
  /\ lastComboTime = Epoch - 1000
  /\ waveRef = 1
  /\ effectTimeout = 0
  /\ spawnsSinceSpecial = 3
  /\ currentWave = 1
  /\ showWaveAnnouncement = FALSE
  /\ criticalFlash = FALSE
  /\ timers = <<>>
  /\ now = Epoch
  /\ frameReady = FALSE
  /\ crashed = FALSE
  /\ tracker = NoTracker
  /\ run = 1
  /\ game = NoGame
  /\ button = NoButton
  /\ camera = NoCamera
  /\ gameOverCount = 0
  /\ ev = NoEvent

WaveTick == TickBy({WaveDt}, WaveHorizon)

WaveFrame == FrameOn(WavePointers)

WaveNext == WaveTick \/ WaveFrame \/ TimerFire \/ StartGame \/ ReturnToMenu

WaveSpec == WaveInit /\ [][WaveNext]_vars

----------------------------------------------------------------------------
(* Bombs under an active effect.  checkCollisions is driven from states in *)
(* which an effect is active and expires EffectRemaining ms later: no      *)
(* effect, freeze, or frenzy (the fruit shower of the frenzy is over).  A  *)
(* bomb is rising through the right lane.                                  *)

EffectRemaining == 1000
EffectNames == {"none", "freeze", "frenzy"}
EffectScale(e) == IF e = "frenzy" THEN 3 ELSE IF e = "freeze" THEN 2 ELSE 10

EffectInit ==
  /\ gameState = "playing"
  /\ stored = 0
  /\ \E l \in {INITIAL_LIVES - 1, INITIAL_LIVES} :
       stats = [score |-> 0, lives |-> l, combo |-> 0, maxCombo |-> 0,
                fruitsSliced |-> 0, highScore |-> 0]
  /\ fruits = <<>>
  /\ bombs = <<[id |-> 1, x |-> BombX, y |-> canvasHeight, velocityX |-> 0,
                velocityY |-> EntityVY, radius |-> BOMB_RADIUS, sliced |-> FALSE]>>
  /\ specialFruits = <<>>
  /\ slicedFruits = <<>>
  /\ particles = <<>>
  /\ scorePopups = <<>>
  /\ bombFlash = FALSE
  /\ activeEffect \in EffectNames
  /\ timeScale = EffectScale(activeEffect)
  /\ lastSpawn = Epoch - EffectRemaining
  /\ lastComboTime = 0
  /\ waveRef = 1
  /\ effectTimeout = IF activeEffect = "none" THEN 0 ELSE 1
  /\ spawnsSinceSpecial = 0
  /\ currentWave = 1
  /\ showWaveAnnouncement = FALSE
  /\ criticalFlash = FALSE
  /\ timers = IF activeEffect = "none" THEN <<>>
              ELSE <<[id |-> 1, kind |-> "effectOff",
                      due |-> Epoch + EffectRemaining,
                      run |-> 1, captured |-> "playing"]>>
  /\ now = Epoch
  /\ frameReady = FALSE
  /\ crashed = FALSE
  /\ tracker = NoTracker
  /\ run = 1
  /\ game = NoGame
  /\ button = NoButton
  /\ camera = NoCamera
  /\ gameOverCount = 0
  /\ ev = NoEvent

EffectTick == TickBy(DtSet, EffectHorizon)

EffectNext == EffectTick \/ Frame \/ TimerFire

EffectSpec == EffectInit /\ [][EffectNext]_vars

----------------------------------------------------------------------------
(* Tracking.  The game loop reads the trail and the is-swiping signal that *)
(* useHandTracking holds, while tracking results and mouse/touch events    *)
(* arrive between the frames.  A run is under way with an apple in the     *)
(* left lane and a bomb in the right lane; no spawn batch falls due within *)
(* the horizon.  Fingertip and pointer are at one of TrackPositions.       *)

TrackDt == 100
TrackPositions == {Pt(0, 20), Pt(20, 20)}

TrackInit ==
  /\ gameState = "playing"
  /\ stored = 0
  /\ stats = [score |-> 0, lives |-> INITIAL_LIVES, combo |-> 0, maxCombo |-> 0,
              fruitsSliced |-> 0, highScore |-> 0]
  /\ fruits = <<[id |-> 1, type |-> "apple", x |-> 10, y |-> canvasHeight,
                 velocityX |-> 0, velocityY |-> -5,
                 radius |-> FruitRadius("apple"), sliced |-> FALSE, run |-> 1]>>
  /\ bombs = <<[id |-> 1, x |-> BombX, y |-> canvasHeight, velocityX |-> 0,
                velocityY |-> -5, radius |-> BOMB_RADIUS, sliced |-> FALSE]>>
  /\ specialFruits = <<>>
  /\ slicedFruits = <<>>
  /\ particles = <<>>
  /\ scorePopups = <<>>
  /\ bombFlash = FALSE
  /\ activeEffect = "none"
  /\ timeScale = 10
  /\ lastSpawn = Epoch
  /\ lastComboTime = 0
  /\ waveRef = 1
  /\ effectTimeout = 0
  /\ spawnsSinceSpecial = 1
  /\ currentWave = 1
  /\ showWaveAnnouncement = FALSE
  /\ criticalFlash = FALSE
  /\ timers = <<>>
  /\ now = Epoch
  /\ frameReady = FALSE
  /\ crashed = FALSE
  /\ tracker = NoTracker
  /\ run = 1
  /\ game = NoGame
  /\ button = NoButton
  /\ camera = NoCamera
  /\ gameOverCount = 0
  /\ ev = NoEvent

\* a callback of useHandTracking runs before the frame callback of the
\* current clock value and leaves next as the tracker
TrackerStep(kind, next) ==
  /\ ~crashed
  /\ frameReady
  /\ tracker.at # now \/ tracker.count < MaxEvents
  /\ tracker' = [next EXCEPT !.at = now,
                             !.count = IF tracker.at = now THEN tracker.count + 1 ELSE 1]
  /\ ev' = [NoEvent EXCEPT !.kind = kind, !.stateBefore = gameState, !.before = stats,
                           !.mid = stats, !.storedBefore = stored,
                           !.swiping = tracker.isSwiping,
                           !.trailLen = Len(tracker.trail)]
  /\ UNCHANGED <<gameState, stats, stored, fruits, bombs, specialFruits, slicedFruits,
                 particles, scorePopups, bombFlash, activeEffect, timeScale, lastSpawn,
                 lastComboTime, waveRef, effectTimeout, spawnsSinceSpecial, currentWave,
                 showWaveAnnouncement, criticalFlash, timers, now, frameReady, crashed,
                 run, gameOverCount>>
  /\ UNCHANGED <<game, button, camera>>

OnResultsHand == \E pos \in TrackPositions : TrackerStep("hand", onResultsHand(tracker, pos, now))

OnResultsNoHand == TrackerStep("nohand", onResultsNoHand(tracker))

PointerDown == TrackerStep("down", handlePointerDown(tracker))

PointerUp == TrackerStep("up", handlePointerUp(tracker))

PointerMove ==
  \E pos \in TrackPositions, touch \in BOOLEAN :
    TrackerStep("move", handlePointerMove(tracker, pos, touch, now))

TrackTick == TickBy({TrackDt}, TrackHorizon)

\* gameLoop with getTrail() and isSwiping of useHandTracking
TrackFrame == FrameOn({[trail |-> tracker.trail, isSwiping |-> tracker.isSwiping]})

\* no timer falls due within TrackHorizon: the shortest, the bomb flash, is
\* armed by the first frame at Epoch + TrackDt at the earliest and runs
\* BOMB_FLASH_DURATION
TrackNext ==
  \/ TrackTick
  \/ TrackFrame
  \/ OnResultsHand
  \/ OnResultsNoHand
  \/ PointerDown
  \/ PointerUp
  \/ PointerMove

TrackSpec == TrackInit /\ [][TrackNext]_vars

----------------------------------------------------------------------------
(* The trail buffer.  The exploration starts with the hand tracked for a   *)
(* while: n results TrackDt apart, the fingertip going to and fro between  *)
(* the two positions, have filled the trail (n = TRAIL_LENGTH), or left    *)
(* room for one point, or n = 0.  No entity is on screen.                  *)

\* the i-th of n points pushed up to the time t
FilledPoint(i, n, t) ==
  [x |-> IF i % 2 = 0 THEN 0 ELSE 20, y |-> 20, timestamp |-> t - (n - i) * TrackDt]

\* the trail after n results with a hand, the last at the time t
FilledTrail(n, t) ==
  LET first == Max(1, n - TRAIL_LENGTH + 1)
  IN  [k \in 1..(n - first + 1) |-> FilledPoint(first + k - 1, n, t)]

\* the tracker after n results with a hand, the last at the time t
FilledTracker(n, t) ==
  IF n = 0 THEN NoTracker
  ELSE [NoTracker EXCEPT !.trail = FilledTrail(n, t),
                         !.handTrackingActive = TRUE,
                         !.isSwiping = (n > 1),
                         !.lastPosition = FilledPoint(n, n, t)]

TrailInit ==
  /\ gameState = "playing"
  /\ stored = 0
  /\ stats = [score |-> 0, lives |-> INITIAL_LIVES, combo |-> 0, maxCombo |-> 0,
              fruitsSliced |-> 0, highScore |-> 0]
  /\ fruits = <<>>
  /\ bombs = <<>>
  /\ specialFruits = <<>>
  /\ slicedFruits = <<>>
  /\ particles = <<>>
  /\ scorePopups = <<>>
  /\ bombFlash = FALSE
  /\ activeEffect = "none"
  /\ timeScale = 10
  /\ lastSpawn = Epoch
  /\ lastComboTime = 0
  /\ waveRef = 1
  /\ effectTimeout = 0
  /\ spawnsSinceSpecial = 1
  /\ currentWave = 1
  /\ showWaveAnnouncement = FALSE
  /\ criticalFlash = FALSE
  /\ timers = <<>>
  /\ now = Epoch
  /\ frameReady = FALSE
  /\ crashed = FALSE
  /\ \E n \in {0, TRAIL_LENGTH - 1, TRAIL_LENGTH} :
       tracker = FilledTracker(n, Epoch)
  /\ run = 1
  /\ game = NoGame
  /\ button = NoButton
  /\ camera = NoCamera
  /\ gameOverCount = 0
  /\ ev = NoEvent

TrailTick == TickBy({TrackDt}, TrailHorizon)

TrailNext ==
  \/ TrailTick
  \/ TrackFrame
  \/ OnResultsHand
  \/ OnResultsNoHand
  \/ PointerDown
  \/ PointerUp
  \/ PointerMove

TrailSpec == TrailInit /\ [][TrailNext]_vars

----------------------------------------------------------------------------
(* The freeze effect.  A freeze fruit hangs at the top of its arc in the   *)
(* middle of the screen, while no effect is active or while an earlier     *)
(* freeze has EffectRemaining ms left.  Frames are FreezeDt apart; the     *)
(* blade, when it swipes, runs along the upper edge of the screen, above   *)
(* the centre of the special fruit and out of reach of fruits and bombs.   *)

FreezeDt == 500
FreezeTrail == <<Pt(5, 0), Pt(25, 0)>>
FreezePointers ==
  { [trail |-> <<>>,        isSwiping |-> FALSE],
    [trail |-> FreezeTrail, isSwiping |-> TRUE] }

FreezeInit ==
  /\ gameState = "playing"
  /\ stored = 0
  /\ stats = [score |-> 0, lives |-> INITIAL_LIVES, combo |-> 0, maxCombo |-> 0,
              fruitsSliced |-> 0, highScore |-> 0]
  /\ fruits = <<>>
  /\ bombs = <<>>
  /\ specialFruits = <<[id |-> 1, specialType |-> "freeze", x |-> 15, y |-> 6,
                        velocityX |-> 0, velocityY |-> 0, radius |-> SPECIAL_RADIUS]>>
  /\ slicedFruits = <<>>
  /\ particles = <<>>
  /\ scorePopups = <<>>
  /\ bombFlash = FALSE
  /\ activeEffect \in {"none", "freeze"}
  /\ timeScale = EffectScale(activeEffect)
  /\ lastSpawn = Epoch
  /\ lastComboTime = 0
  /\ waveRef = 1
  /\ effectTimeout = IF activeEffect = "none" THEN 0 ELSE 1
  /\ spawnsSinceSpecial = 0
  /\ currentWave = 1
  /\ showWaveAnnouncement = FALSE
  /\ criticalFlash = FALSE
  /\ timers = IF activeEffect = "none" THEN <<>>
              ELSE <<[id |-> 1, kind |-> "effectOff",
                      due |-> Epoch + EffectRemaining,
                      run |-> 1, captured |-> "playing"]>>
  /\ now = Epoch
  /\ frameReady = FALSE
  /\ crashed = FALSE
  /\ tracker = NoTracker
  /\ run = 1
  /\ game = NoGame
  /\ button = NoButton
  /\ camera = NoCamera
  /\ gameOverCount = 0
  /\ ev = NoEvent

FreezeTick == TickBy({FreezeDt}, FreezeHorizon)

FreezeFrame == FrameOn(FreezePointers)

FreezeNext == FreezeTick \/ FreezeFrame \/ TimerFire

FreezeSpec == FreezeInit /\ [][FreezeNext]_vars

----------------------------------------------------------------------------
(* Spawn batches.  updatePhysics is driven directly, BatchDt after the     *)
(* previous call, from a run under way with an empty screen in which the   *)
(* last batch was started at Epoch: in wave 1 with 0, 13 or 14 batches     *)
(* since the last special fruit, or in a later wave.  The fruits sliced    *)
(* are those that brought the run to its wave.  All outcomes of the random *)
(* draws of a batch are explored, and nothing is sliced.                   *)

BatchDt == 300
BatchCases ==
  { [wave |-> 1, counter |-> 0], [wave |-> 1, counter |-> 13], [wave |-> 1, counter |-> 14],
    [wave |-> 2, counter |-> 0], [wave |-> 3, counter |-> 0],
    [wave |-> 9, counter |-> 0], [wave |-> 10, counter |-> 0] }

BatchInit ==
  /\ gameState = "playing"
  /\ \E c \in BatchCases :
       /\ stats = [score |-> 10 * (c.wave - 1), lives |-> INITIAL_LIVES, combo |-> 0,
                   maxCombo |-> 1, fruitsSliced |-> 10 * (c.wave - 1),
                   highScore |-> 10 * (c.wave - 1)]
       /\ stored = 10 * (c.wave - 1)
       /\ waveRef = c.wave
       /\ currentWave = c.wave
       /\ spawnsSinceSpecial = c.counter
  /\ fruits = <<>>
  /\ bombs = <<>>
  /\ specialFruits = <<>>
  /\ slicedFruits = <<>>
  /\ particles = <<>>
  /\ scorePopups = <<>>
  /\ bombFlash = FALSE
  /\ activeEffect = "none"
  /\ timeScale = 10
  /\ lastSpawn = Epoch
  /\ lastComboTime = 0
  /\ effectTimeout = 0
  /\ showWaveAnnouncement = FALSE
  /\ criticalFlash = FALSE
  /\ timers = <<>>
  /\ now = Epoch
  /\ frameReady = FALSE
  /\ crashed = FALSE
  /\ tracker = NoTracker
  /\ run = 1
  /\ game = NoGame
  /\ button = NoButton
  /\ camera = NoCamera
  /\ gameOverCount = 0
  /\ ev = NoEvent

BatchTick == TickBy({BatchDt}, BatchHorizon)

\* updatePhysics(), called by a frame in which nothing is swiped
BatchPhysics ==
  /\ ~crashed
  /\ frameReady
  /\ gameState = "playing"
  /\ \A i \in DOMAIN timers : timers[i].due > now
  /\ frameReady' = FALSE
  /\ UNCHANGED <<now, run, tracker>>
  /\ UNCHANGED <<game, button, camera>>
  /\ \E snap \in {World} :
     \E rnd \in (IF BatchDue THEN Rolls(waveRef) ELSE {NoRoll}) :
     \E w2 \in {updatePhysics(snap, snap, now, run, rnd)} :
       \/ /\ Install(w2)
          /\ gameOverCount' = IF w2.gameState = "gameover" THEN gameOverCount + 1
                                                           ELSE gameOverCount
          /\ ev' = FrameEvent(snap, snap, w2, [trail |-> <<>>, isSwiping |-> FALSE])
          /\ crashed' = FALSE
       \/ /\ w2.writes > 0
          /\ Crash(FrameEvent(snap, snap, w2, [trail |-> <<>>, isSwiping |-> FALSE]))

BatchNext == BatchTick \/ BatchPhysics \/ TimerFire

BatchSpec == BatchInit /\ [][BatchNext]_vars

----------------------------------------------------------------------------
(* The step to the next wave.  Nine fruits have been sliced in wave 1, an  *)
(* apple hangs at the top of its arc in the right lane and the next spawn  *)
(* batch is due at the first frame.  The blade, when it swipes, crosses    *)
(* the right lane with one segment.                                        *)

StepPointers ==
  { [trail |-> <<>>,      isSwiping |-> FALSE],
    [trail |-> TrailHigh, isSwiping |-> TRUE] }

StepInit ==
  /\ gameState = "playing"
  /\ stored = 9
  /\ stats = [score |-> 9, lives |-> INITIAL_LIVES, combo |-> 0, maxCombo |-> 1,
              fruitsSliced |-> 9, highScore |-> 9]
  /\ fruits = <<[id |-> 1, type |-> "apple", x |-> 25, y |-> 10,
                 velocityX |-> 0, velocityY |-> 0,
                 radius |-> FruitRadius("apple"), sliced |-> FALSE, run |-> 1]>>
  /\ bombs = <<>>
  /\ specialFruits = <<>>
  /\ slicedFruits = <<>>
  /\ particles = <<>>
  /\ scorePopups = <<>>
  /\ bombFlash = FALSE
  /\ activeEffect = "none"
  /\ timeScale = 10
  /\ lastSpawn = Epoch - SPAWN_INTERVAL_BASE + 2 * 100
  /\ lastComboTime = Epoch - SPAWN_INTERVAL_BASE
  /\ waveRef = 1
  /\ effectTimeout = 0
  /\ spawnsSinceSpecial = 1
  /\ currentWave = 1
  /\ showWaveAnnouncement = FALSE
  /\ criticalFlash = FALSE
  /\ timers = <<>>
  /\ now = Epoch
  /\ frameReady = FALSE
  /\ crashed = FALSE
  /\ tracker = NoTracker
  /\ run = 1
  /\ game = NoGame
  /\ button = NoButton
  /\ camera = NoCamera
  /\ gameOverCount = 0
  /\ ev = NoEvent

StepTick == TickBy(DtSet, StepHorizon)

StepFrame == FrameOn(StepPointers)

StepNext == StepTick \/ StepFrame \/ TimerFire

StepSpec == StepInit /\ [][StepNext]_vars

----------------------------------------------------------------------------
(* The hit test at the edge of the hitbox.  checkCollisions is applied to  *)
(* one entity and a trail of one segment.  Lengths are in units of         *)
(* radius / HIT_DEN, so that the three hitbox radii (FRUIT_HIT_NUM,         *)
(* SPECIAL_HIT_NUM and BOMB_HIT_NUM units) are whole numbers, and           *)
(* positions are relative to the entity's centre.  The end points of the   *)
(* segment lie on the lines at distance 12 (inside every hitbox), 16 (end  *)
(* points on the bomb's circle), 20, 23, 24 (tangent to the hitbox of the  *)
(* bomb, the fruit, the special fruit) and 25 (outside).                   *)

HitKinds == {"fruit", "special", "bomb"}
HitXs == {-12, 0, 12}
HitYs == {12, 16, 20, 23, 24, 25}
HitPoints == {Pt(x, y) : x \in HitXs, y \in HitYs}

\* the squared distance, times HIT_DEN^2 times den, from the centre of e to
\* the nearest point of the segment p1 p2, as the pair <<value, den>>
NearestSq(p1, p2, e) ==
  LET dx == p2.x - p1.x
      dy == p2.y - p1.y
      fx == p1.x - e.x
      fy == p1.y - e.y
      gx == p2.x - e.x
      gy == p2.y - e.y
      a  == dx * dx + dy * dy
      fd == fx * dx + fy * dy
      K  == HIT_DEN * HIT_DEN
  IN  IF fd >= 0 THEN <<K * (fx * fx + fy * fy), 1>>           \* nearest at p1
      ELSE IF fd + a <= 0 THEN <<K * (gx * gx + gy * gy), 1>>  \* nearest at p2
      ELSE <<K * (a * (fx * fx + fy * fy) - fd * fd), a>>      \* nearest in between

\* the squared distance, times HIT_DEN^2, from the centre of e to the
\* farthest point of the segment p1 p2 (one of its end points)
FarthestSq(p1, p2, e) ==
  HIT_DEN * HIT_DEN *
    Max((p1.x - e.x) * (p1.x - e.x) + (p1.y - e.y) * (p1.y - e.y),
        (p2.x - e.x) * (p2.x - e.x) + (p2.y - e.y) * (p2.y - e.y))

\* the squared radius, times HIT_DEN^2, of the hitbox of e
HitboxSq(e, num) == (num * e.radius) * (num * e.radius)

\* the segment touches the circle: its nearest point is exactly at the
\* hitbox radius
Touches(p1, p2, e, num) ==
  NearestSq(p1, p2, e)[1] = NearestSq(p1, p2, e)[2] * HitboxSq(e, num)

\* the segment p1 p2, of non-zero length, reaches the circle that bounds the
\* hitbox of e: its nearest point is not outside and its farthest not inside
Reaches(p1, p2, e, num) ==
  /\ p1 # p2
  /\ NearestSq(p1, p2, e)[1] <= NearestSq(p1, p2, e)[2] * HitboxSq(e, num)
  /\ FarthestSq(p1, p2, e) >= HitboxSq(e, num)

\* the kinds of live entity of snap whose hitbox circle the segment reaches
ReachedKinds(snap, p1, p2) ==
  {k \in HitKinds :
     \/ k = "fruit" /\ \E j \in DOMAIN snap.fruits :
          ~snap.fruits[j].sliced /\ Reaches(p1, p2, snap.fruits[j], FRUIT_HIT_NUM)
     \/ k = "special" /\ \E j \in DOMAIN snap.specialFruits :
          Reaches(p1, p2, snap.specialFruits[j], SPECIAL_HIT_NUM)
     \/ k = "bomb" /\ \E j \in DOMAIN snap.bombs :
          ~snap.bombs[j].sliced /\ Reaches(p1, p2, snap.bombs[j], BOMB_HIT_NUM)}

\* the kinds of live entity of snap whose hitbox circle the segment, of
\* non-zero length, only touches
TouchedKinds(snap, p1, p2) ==
  {k \in HitKinds :
     /\ p1 # p2
     /\ \/ k = "fruit" /\ \E j \in DOMAIN snap.fruits :
             ~snap.fruits[j].sliced /\ Touches(p1, p2, snap.fruits[j], FRUIT_HIT_NUM)
        \/ k = "special" /\ \E j \in DOMAIN snap.specialFruits :
             Touches(p1, p2, snap.specialFruits[j], SPECIAL_HIT_NUM)
        \/ k = "bomb" /\ \E j \in DOMAIN snap.bombs :
             ~snap.bombs[j].sliced /\ Touches(p1, p2, snap.bombs[j], BOMB_HIT_NUM)}

HitInit ==
  /\ gameState = "playing"
  /\ stored = 0
  /\ stats = [score |-> 0, lives |-> INITIAL_LIVES, combo |-> 0, maxCombo |-> 0,
              fruitsSliced |-> 0, highScore |-> 0]
  /\ \E kind \in HitKinds :
       /\ fruits = IF kind = "fruit"
                   THEN <<[id |-> 1, type |-> "apple", x |-> 0, y |-> 0,
                           velocityX |-> 0, velocityY |-> 0,
                           radius |-> HIT_DEN, sliced |-> FALSE, run |-> 1]>>
                   ELSE <<>>
       /\ specialFruits = IF kind = "special"
                          THEN <<[id |-> 1, specialType |-> "freeze", x |-> 0, y |-> 0,
                                  velocityX |-> 0, velocityY |-> 0, radius |-> HIT_DEN]>>
                          ELSE <<>>
       /\ bombs = IF kind = "bomb"
                  THEN <<[id |-> 1, x |-> 0, y |-> 0, velocityX |-> 0, velocityY |-> 0,
                          radius |-> HIT_DEN, sliced |-> FALSE]>>
                  ELSE <<>>
  /\ slicedFruits = <<>>
  /\ particles = <<>>
  /\ scorePopups = <<>>
  /\ bombFlash = FALSE
  /\ activeEffect = "none"
  /\ timeScale = 10
  /\ lastSpawn = Epoch
  /\ lastComboTime = 0
  /\ waveRef = 1
  /\ effectTimeout = 0
  /\ spawnsSinceSpecial = 1
  /\ currentWave = 1
  /\ showWaveAnnouncement = FALSE
  /\ criticalFlash = FALSE
  /\ timers = <<>>
  /\ now = Epoch
  /\ frameReady = TRUE
  /\ crashed = FALSE
  /\ \E p1 \in HitPoints, p2 \in HitPoints :
       tracker = [NoTracker EXCEPT !.trail = Push(Push(<<>>, p1, Epoch), p2, Epoch),
                                   !.isSwiping = TRUE]
  /\ run = 1
  /\ game = NoGame
  /\ button = NoButton
  /\ camera = NoCamera
  /\ gameOverCount = 0
  /\ ev = NoEvent

\* checkCollisions(trail, isSwiping) on the entity and the segment
HitCheck ==
  /\ ~crashed
  /\ gameState = "playing"
  /\ frameReady
  /\ \E snap \in {World} :
     \E w \in {checkCollisions(snap, snap, tracker.trail, tracker.isSwiping, now, run)} :
       \/ /\ Install(w)
          /\ ev' = [NoEvent EXCEPT !.kind = "hit", !.before = stats, !.mid = stats,
                                   !.stateBefore = gameState, !.storedBefore = stored,
                                   !.sliceCalls = w.sliceCalls,
                                   !.specialCalls = w.specialCalls,
                                   !.bombCalls = w.bombCalls,
                                   !.swiping = tracker.isSwiping,
                                   !.trailLen = Len(tracker.trail),
                                   !.reached = ReachedKinds(snap, tracker.trail[1],
                                                            tracker.trail[2]),
                                   !.touched = TouchedKinds(snap, tracker.trail[1],
                                                            tracker.trail[2])]
          /\ crashed' = FALSE
          /\ frameReady' = FALSE
          /\ gameOverCount' = IF w.gameState = "gameover" THEN gameOverCount + 1
                                                          ELSE gameOverCount
          /\ UNCHANGED <<now, tracker, run>>
          /\ UNCHANGED <<game, button, camera>>
       \/ /\ w.writes > 0
          /\ Crash(NoEvent)
          /\ UNCHANGED <<now, frameReady, tracker, run, gameOverCount>>
          /\ UNCHANGED <<game, button, camera>>

HitNext == HitCheck

HitSpec == HitInit /\ [][HitNext]_vars

----------------------------------------------------------------------------
(* The plain-JavaScript build: the main loop calls update every GameDt ms  *)
(* with the outcome of its collision test and the number of fruits that    *)
(* left the screen, the start and restart buttons call startGame, and the  *)
(* gameOver callbacks armed by sliceBomb run when due.                     *)

GameDt == 250
MaxMissed == 2
GameHits == [fruits : 0..1, bomb : BOOLEAN, missed : 0..MaxMissed]

GameTick ==
  /\ ~frameReady
  /\ \A i \in DOMAIN game.pending : game.pending[i].due > now
  /\ now + GameDt <= Epoch + GameHorizon
  /\ now' = now + GameDt
  /\ frameReady' = TRUE
  /\ ev' = NoEvent
  /\ UNCHANGED <<engineVars, tracker, game, button, camera>>

\* gameLoop(timestamp)
GameFrame ==
  /\ frameReady
  /\ \A i \in DOMAIN game.pending : game.pending[i].due > now
  /\ frameReady' = FALSE
  /\ \E hit \in GameHits : game' = Main_update(game, GameDt, hit, now)
  /\ ev' = [NoEvent EXCEPT !.kind = "gameFrame", !.stateBefore = game.state]
  /\ UNCHANGED <<engineVars, now, tracker, button, camera>>

\* the start button, the restart button, or the space or enter key
GameStart ==
  /\ game.state \in {"menu", "gameOver"}
  /\ game.run < MaxRuns
  /\ game' = Main_startGame(game)
  /\ ev' = [NoEvent EXCEPT !.kind = "gameStart", !.stateBefore = game.state]
  /\ UNCHANGED <<engineVars, now, frameReady, tracker, button, camera>>

\* the callback armed by sliceBomb runs
GameOverTimer ==
  /\ game.pending # <<>>
  /\ game.pending[1].due <= now
  /\ game' = Game_gameOver([game EXCEPT !.pending = Tail(@)])
  /\ ev' = [NoEvent EXCEPT !.kind = "gameOverTimer", !.stateBefore = game.state,
                           !.timerRun = game.pending[1].run]
  /\ UNCHANGED <<engineVars, now, frameReady, tracker, button, camera>>

GameNext == GameTick \/ GameFrame \/ GameStart \/ GameOverTimer

GameSpec == Init /\ [][GameNext]_vars

----------------------------------------------------------------------------
(* Slice chains across a restart.  As in the slice-chain specification     *)
(* sliceFruit is driven directly, up to RestartSlices times in one run;    *)
(* in addition sliceBomb ends the run at any point, the restart button     *)
(* starts the next run and the timer that ends the bomb flash runs.  The   *)
(* clock advances only with the gap before a slice, up to Epoch + Horizon, *)
(* so the first slice of a run comes ev.gap after the last slice of the    *)
(* run before.                                                             *)

RestartSpawn == ChainSpawnUpTo(RestartSlices)

\* sliceBomb() on a bomb under the blade
RestartBomb ==
  /\ ~crashed
  /\ gameState = "playing"
  /\ \E w \in {sliceBomb(World, now, run)} :
       \/ /\ Install(w)
          /\ crashed' = FALSE
          /\ gameOverCount' = gameOverCount + 1
          /\ ev' = [NoEvent EXCEPT !.kind = "bomb", !.before = stats, !.mid = stats,
                                   !.storedBefore = stored, !.stateBefore = gameState,
                                   !.bombCalls = 1]
       \/ /\ w.writes > 0
          /\ Crash(NoEvent)
          /\ UNCHANGED gameOverCount
  /\ UNCHANGED <<now, frameReady, tracker, run>>
  /\ UNCHANGED <<game, button, camera>>

\* the slices up to Epoch + Horizon
RestartSlice == ChainSliceAfter({gap \in Gaps : now + gap <= Epoch + Horizon})

RestartNext == RestartSpawn \/ RestartSlice \/ RestartBomb \/ StartGame \/ TimerFire

RestartSpec == ChainInit /\ [][RestartNext]_vars

(***************************************************************************)
(* ButtonSpec: one GestureButton under a hand that moves on, next to and   *)
(* off the button, tracking that starts and stops, the disabled prop and   *)
(* the onActivate callback changing, animation frames, clicks and the      *)
(* clock.                                                                  *)
(***************************************************************************)
ButtonDt == 200
HandXs == {89, 90, 211}
HandYs == {120, 151}

ButtonMove ==
  /\ \E x \in HandXs, y \in HandYs, tr \in BOOLEAN :
       /\ <<x, y, tr>> # <<button.x, button.y, button.isTracking>>
       /\ button' = Button_render([button EXCEPT !.x = x, !.y = y, !.isTracking = tr],
                                  now, FALSE)
  /\ UNCHANGED <<engineVars, now, frameReady, tracker, ev, game, camera>>

ButtonSetDisabled ==
  /\ button' = Button_render([button EXCEPT !.disabled = ~button.disabled], now, TRUE)
  /\ UNCHANGED <<engineVars, now, frameReady, tracker, ev, game, camera>>

ButtonNewCallback ==
  /\ button' = Button_render([button EXCEPT !.onActivate = 1 - button.onActivate],
                             now, TRUE)
  /\ UNCHANGED <<engineVars, now, frameReady, tracker, ev, game, camera>>

ButtonFrame ==
  /\ button.timer
  /\ button' = Button_updateProgress(button, now)
  /\ UNCHANGED <<engineVars, now, frameReady, tracker, ev, game, camera>>

ButtonClick ==
  /\ button' = Button_handleClick(button, now)
  /\ UNCHANGED <<engineVars, now, frameReady, tracker, ev, game, camera>>

ButtonTick ==
  /\ now + ButtonDt <= Epoch + ButtonHorizon
  /\ now' = now + ButtonDt
  /\ UNCHANGED <<engineVars, frameReady, tracker, ev, game, button, camera>>

ButtonNext ==
  \/ ButtonMove
  \/ ButtonSetDisabled
  \/ ButtonNewCallback
  \/ ButtonFrame
  \/ ButtonClick
  \/ ButtonTick

ButtonSpec == Init /\ [][ButtonNext]_vars

(***************************************************************************)
(* CameraSpec: calls of requestCamera and enableMouseFallback, the awaits  *)
(* of every attempt resolving or rejecting in any order and at any time,   *)
(* the timeouts, the frames of started cameras, and the clock.             *)
(***************************************************************************)
CameraDt == 7500
CameraPosition == Pt(0, 20)

CameraStep(next) ==
  /\ camera' = next
  /\ UNCHANGED <<engineVars, now, frameReady, tracker, ev, game, button>>

RequestCamera ==
  \E libraryLoaded \in BOOLEAN :
    \E next \in {Camera_requestCamera(camera, libraryLoaded, now)} :
      /\ Len(next.attempts) <= MaxAttempts
      /\ CameraStep(next)

EnableMouseFallback ==
  /\ camera' = Camera_enableMouseFallback(camera)
  /\ tracker' = [tracker EXCEPT !.useMouseFallback = TRUE]
  /\ UNCHANGED <<engineVars, now, frameReady, ev, game, button>>

CameraGum ==
  \E i \in DOMAIN camera.attempts :
    /\ camera.attempts[i].pc = "gum"
    /\ \/ CameraStep(Camera_gumResolved(camera, i))
       \/ \E error \in GumErrors : CameraStep(Camera_reject(camera, i, error))

CameraPlay ==
  \E i \in DOMAIN camera.attempts :
    /\ camera.attempts[i].pc = "play"
    /\ \/ CameraStep(Camera_playResolved(camera, i))
       \/ CameraStep(Camera_reject(camera, i, ErrAbort))

CameraStart ==
  \E i \in DOMAIN camera.attempts :
    /\ camera.attempts[i].pc = "start"
    /\ \/ CameraStep(Camera_startResolved(camera, i))
       \/ CameraStep(Camera_reject(camera, i, ErrAbort))

CameraTimeout ==
  \E i \in DOMAIN camera.attempts :
    /\ ~camera.attempts[i].settled
    /\ now >= camera.attempts[i].deadline
    /\ CameraStep(Camera_timeout(camera, i))

\* a frame of the camera of attempt i gives a tracking result with a hand
CameraResult ==
  \E i \in DOMAIN camera.attempts :
    /\ Camera_sends(camera, i)
    /\ camera.attempts[i].results < MaxResults
    /\ camera' = [camera EXCEPT !.attempts[i].results = @ + 1,
                                !.last = [kind |-> "result", attempt |-> i,
                                          error |-> NoError]]
    /\ tracker' = onResultsHand(tracker, CameraPosition, now)
    /\ UNCHANGED <<engineVars, now, frameReady, ev, game, button>>

CameraTick ==
  /\ \A i \in DOMAIN camera.attempts :
       camera.attempts[i].settled \/ now < camera.attempts[i].deadline
  /\ now + CameraDt <= Epoch + CameraHorizon
  /\ now' = now + CameraDt
  /\ UNCHANGED <<engineVars, frameReady, tracker, ev, game, button, camera>>

CameraNext ==
  \/ RequestCamera
  \/ EnableMouseFallback
  \/ CameraGum
  \/ CameraPlay
  \/ CameraStart
  \/ CameraTimeout
  \/ CameraResult
  \/ CameraTick

CameraSpec == Init /\ [][CameraNext]_vars

----------------------------------------------------------------------------
(* Properties                                                              *)

\* C1: in one checkCollisions pass a fruit under the blade is sliced exactly
\* once, however many of the checked segments intersect its hitbox: there
\* are as many sliceFruit calls, and as many fruitsSliced increments, as
\* fruits removed from the live collection.
C1_SlicedExactlyOnce ==
  (ev.kind = "frame" /\ ev.stateBefore = "playing") =>
    /\ ev.sliceCalls = ev.removed
    /\ ev.mid.fruitsSliced - ev.before.fruitsSliced = ev.removed

\* C2: a fruit-spawn timer callback adds a fruit only while the game is
\* playing and only in the run that scheduled it; no live fruit belongs to
\* an earlier run.
C2_NoStaleSpawn ==
  /\ ev.spawned => (ev.stateBefore = "playing" /\ ev.timerRun = run)
  /\ \A i \in DOMAIN fruits : fruits[i].run = run

\* C3: in every reachable state 0 <= lives <= 3.
C3_LivesInRange == stats.lives \in 0..INITIAL_LIVES

\* a tick in which more fruits were missed than there were lives left
C3_Witness ==
  /\ ev.kind = "frame"
  /\ ev.mid.lives > 0
  /\ ev.missed > ev.mid.lives
  /\ stats.lives = 0

\* C4: within one run the transition playing -> game-over happens at most
\* once, and it has happened exactly once when lives are 0; the game is over
\* exactly when that transition has happened and the player has not left
\* the game-over screen.
C4_GameOverOnce ==
  /\ gameOverCount \in {0, 1}
  /\ (stats.lives = 0) <=> (gameOverCount = 1)
  /\ gameState = "gameover" => gameOverCount = 1
  /\ gameState = "playing" => gameOverCount = 0

\* three fruits missed in different ticks: the last miss ends the game once
C4_Witness ==
  /\ ev.kind = "frame"
  /\ ev.bombCalls = 0
  /\ ev.mid.lives \in 1..(INITIAL_LIVES - 1)
  /\ ev.missed >= 1
  /\ stats.lives = 0
  /\ gameState = "gameover"
  /\ gameOverCount = 1

\* C5: a frame in which a checked swipe segment intersects a live bomb while
\* no frenzy is active ends with lives = 0 and the game over.
C5_BombEndsGame ==
  (ev.kind = "frame" /\ ev.bombHit /\ ~ev.immune) =>
    (stats.lives = 0 /\ gameState = "gameover")

\* a bomb is hit when one life has already been lost
C5_Witness ==
  /\ ev.kind = "frame"
  /\ ev.bombHit
  /\ ~ev.immune
  /\ ev.before.lives = INITIAL_LIVES - 1
  /\ stats.lives = 0
  /\ gameState = "gameover"

\* C6: the physics pass of a frame takes lives from their value after the
\* collision pass to max(0, lives - k), k the number of fruits that crossed
\* the lower bound in that pass; nothing else in the pass changes lives.
C6_LivesLostPerMiss ==
  (ev.kind = "frame" /\ ev.stateBefore = "playing") =>
    stats.lives = Max(0, ev.mid.lives - ev.missed)

\* two fruits are missed in the same tick and two lives are lost
C6_Witness ==
  /\ ev.kind = "frame"
  /\ ev.missed = 2
  /\ ev.mid.lives = INITIAL_LIVES
  /\ stats.lives = INITIAL_LIVES - 2

C8_SlicePoints ==
  ev.kind = "slice" =>
    /\ stats.score = ev.before.score
                       + FRUIT_POINTS[ev.type] * Min(stats.combo, MAX_MULTIPLIER)
    /\ stats.fruitsSliced = ev.before.fruitsSliced + 1
    /\ (stats.fruitsSliced = 3 /\ ev.chain = 3 /\ ev.gap = 200) =>
         /\ stats.combo = 3
         /\ stats.score = FRUIT_POINTS[NthType(1)] * 1 + FRUIT_POINTS[NthType(2)] * 2
                            + FRUIT_POINTS[NthType(3)] * 3

\* the third of three slices 200 ms apart
C8_Witness ==
  /\ ev.kind = "slice"
  /\ ev.gap = 200
  /\ ev.chain = 3
  /\ stats.fruitsSliced = 3
  /\ stats.combo = 3
  /\ stats.score = 9

\* C9: between actions the in-memory high score and the persisted high score
\* are both at least the current score.
C9_HighScoreAtLeastScore ==
  /\ stats.highScore >= stats.score
  /\ stored >= stats.score

\* C10: the stored high score never decreases, and an action writes it only
\* when the score strictly exceeds the value stored before the action.
C10_StoredOnlyWhenExceeded ==
  /\ stored >= ev.storedBefore
  /\ ev.writes > 0 => stats.score > ev.storedBefore

\* C11: startGame called after game-over leaves score 0, lives 3, combo 0,
\* maxCombo 0, fruitsSliced 0 and wave 1, and the high score it found.
C11_RestartResetsStats ==
  (ev.kind = "start" /\ ev.stateBefore = "gameover") =>
    /\ stats = [score |-> 0, lives |-> INITIAL_LIVES, combo |-> 0, maxCombo |-> 0,
                fruitsSliced |-> 0, highScore |-> ev.before.highScore]
    /\ waveRef = 1
    /\ currentWave = 1

\* a restart after a run that scored and set a high score
C11_Witness ==
  /\ ev.kind = "start"
  /\ ev.stateBefore = "gameover"
  /\ ev.before.score > 0
  /\ ev.before.combo > 0
  /\ ev.before.highScore > 0
  /\ stats.highScore = ev.before.highScore

\* C12: startGame and returnToMenu leave the six live collections empty, the
\* active effect none and the time scale 1, and no effect-expiry timer
\* pending; a pending effect-expiry timer was always armed in the current run.
C12_ResetCancelsEffect ==
  /\ ev.kind \in {"start", "menu"} =>
       /\ fruits = <<>> /\ bombs = <<>> /\ specialFruits = <<>>
       /\ slicedFruits = <<>> /\ particles = <<>> /\ scorePopups = <<>>
       /\ activeEffect = "none"
       /\ timeScale = 10
       /\ ~EffectPending(timers)
  /\ \A i \in DOMAIN timers : timers[i].kind = "effectOff" => timers[i].run = run

\* a restart while the expiry timer of a freeze was pending
C12_Witness ==
  /\ ev.kind = "start"
  /\ ev.effectPending
  /\ ev.effect = "freeze"
  /\ ~EffectPending(timers)
  /\ activeEffect = "none"

\* C13: a wave-announcement timer armed in one run never changes the
\* wave-announcement flag of a run started after it was armed.
C13_NoStaleWaveTimer ==
  (ev.kind = "timer" /\ ev.timerKind = "waveOff" /\ ev.timerRun < run) =>
    showWaveAnnouncement = ev.flagBefore

\* C14: gameState changes only by menu -> playing (startGame), playing ->
\* gameover (a frame that slices a bomb or leaves lives at 0), gameover ->
\* menu (returnToMenu) and gameover -> playing (startGame); a timer callback
\* never changes it, and gameover is never entered from menu.
C14_Transitions ==
  [][ /\ gameState' # gameState =>
           \/ gameState = "menu" /\ gameState' = "playing" /\ ev'.kind = "start"
           \/ /\ gameState = "playing" /\ gameState' = "gameover"
              /\ ev'.kind = "frame"
              /\ ev'.bombCalls > 0 \/ stats'.lives = 0
           \/ gameState = "gameover" /\ gameState' = "menu" /\ ev'.kind = "menu"
           \/ gameState = "gameover" /\ gameState' = "playing" /\ ev'.kind = "start"
      /\ ev'.kind = "timer" => gameState' = gameState
      /\ ev'.kind = "start" => gameState' = "playing"
      /\ ev'.kind = "menu" => gameState' = "menu" ]_vars

\* back on the menu after a game, a spawn timer of that game fires and adds
\* a fruit: the state stays menu
C14_Witness ==
  /\ ev.kind = "timer"
  /\ ev.timerKind = "spawnFruit"
  /\ ev.stateBefore = "menu"
  /\ ev.spawned
  /\ gameState = "menu"
  /\ run >= 1

\* C15: a frame callback that finds gameState other than playing runs
\* neither checkCollisions nor updatePhysics: stats, wave, every entity (so
\* every position) and every collection stay as they were, no spawn batch is
\* started (lastSpawn and the pending timers stay) and nothing is stored.
C15_IdleFrames ==
  [][ (ev'.kind = "frame" /\ gameState # "playing") =>
        UNCHANGED <<gameState, stats, stored, fruits, bombs, specialFruits, slicedFruits,
                    particles, scorePopups, bombFlash, activeEffect, timeScale, lastSpawn,
                    lastComboTime, waveRef, effectTimeout, spawnsSinceSpecial, currentWave,
                    showWaveAnnouncement, criticalFlash, timers>> ]_vars

\* a frame after the game is over, with a live fruit on screen and a spawn
\* batch that would be due
C15_Witness ==
  /\ ev.kind = "frame"
  /\ ev.stateBefore = "gameover"
  /\ gameState = "gameover"
  /\ \E i \in DOMAIN fruits : ~fruits[i].sliced
  /\ BatchDue

\* C16: a checkCollisions call with isSwiping false, or with a trail of fewer
\* than two points, changes nothing: the state after the collision pass is
\* the state the frame started from (no slice, no removal, no score, combo,
\* lives, effect or gameState change, no timer armed), whatever lies under
\* the trail.
C16_NoSwipeNoCollision ==
  (ev.kind = "frame" /\ ev.stateBefore = "playing" /\ (~ev.swiping \/ ev.trailLen < 2)) =>
    /\ ev.untouched
    /\ ev.sliceCalls = 0 /\ ev.specialCalls = 0 /\ ev.bombCalls = 0 /\ ev.removed = 0
    /\ ev.mid = ev.before
    /\ ev.midState = "playing"

\* a trail of three points crosses a live entity while isSwiping is false
C16_Witness ==
  /\ ev.kind = "frame"
  /\ ev.stateBefore = "playing"
  /\ ~ev.swiping
  /\ ev.trailLen >= 2
  /\ ev.overlap
  /\ ev.untouched

\* C17: when one checked segment of a swipe intersects a live fruit and a
\* live bomb and no frenzy is active, the fruit is sliced and its points are
\* added, and the frame still ends with lives = 0 and the game over; the
\* score at game-over is the score with the fruit's points, and the high
\* score and the stored high score are at least the score made of fruit
\* points (the bonus of a special fruit sliced in the same frame aside).
C17_FruitAndBomb ==
  (ev.kind = "frame" /\ ev.bothHit /\ ~ev.immune) =>
    /\ ev.sliceCalls >= 1
    /\ ev.bombCalls >= 1
    /\ ev.mid.fruitsSliced > ev.before.fruitsSliced
    /\ ev.mid.score > ev.before.score
    /\ stats.score = ev.mid.score
    /\ stats.lives = 0
    /\ gameState = "gameover"
    /\ stats.highScore >= stats.score - SPECIAL_BONUS * ev.specialCalls
    /\ stored >= stats.score - SPECIAL_BONUS * ev.specialCalls

\* the fruit's points lift the score above the previous high score in the
\* frame that ends the game
C17_Witness ==
  /\ ev.kind = "frame"
  /\ ev.bothHit
  /\ ~ev.immune
  /\ ev.before.lives > 0
  /\ ev.mid.score > ev.before.highScore
  /\ stats.highScore = stats.score
  /\ gameState = "gameover"

\* C18: a frame in which a checked swipe segment intersects a live bomb
\* leaves lives and gameState as they were after the collision pass when the
\* active effect is frenzy (sliceBomb is not called); with any other effect,
\* freeze included, or none, it calls sliceBomb and ends with lives = 0 and
\* the game over.
C18_BombImmunity ==
  (ev.kind = "frame" /\ ev.stateBefore = "playing" /\ ev.bombHit) =>
    IF ev.effect = "frenzy"
    THEN /\ ev.bombCalls = 0
         /\ ev.mid.lives = ev.before.lives
         /\ ev.midState = "playing"
         /\ ~bombFlash
    ELSE /\ ev.bombCalls >= 1
         /\ ev.mid.lives = 0
         /\ ev.midState = "gameover"
         /\ stats.lives = 0
         /\ gameState = "gameover"

\* a bomb under the blade during a frenzy: the game goes on with the same lives
C18_Witness ==
  /\ ev.kind = "frame"
  /\ ev.bombHit
  /\ ev.effect = "frenzy"
  /\ ev.before.lives > 0
  /\ stats.lives = ev.before.lives
  /\ gameState = "playing"

\* C19: a storage write that throws is swallowed: the frame completes, no
\* exception leaves it and the game goes on as after a successful write.
C19_WriteFailureSwallowed == ~crashed

\* C20: a tracking result without a hand that arrives while no mouse button
\* is held changes neither gameState, score nor lives, and from then until a
\* point is pushed on the trail (by a tracking result with a hand or by a
\* mouse/touch move) no frame slices a fruit, a special fruit or a bomb,
\* even if the is-swiping signal still reads true.
C20_TrackingLoss ==
  /\ ev.kind = "nohand" => (gameState = ev.stateBefore /\ stats = ev.before)
  /\ (ev.kind = "frame" /\ tracker.lost) =>
       /\ ev.sliceCalls = 0 /\ ev.specialCalls = 0 /\ ev.bombCalls = 0
       /\ ev.removed = 0
       /\ ev.mid = ev.before
       /\ ev.untouched

\* the hand is lost in mid-swipe: the frame that follows still sees
\* isSwiping true, with entities on screen, and hits nothing
C20_Witness ==
  /\ ev.kind = "frame"
  /\ ev.stateBefore = "playing"
  /\ tracker.lost
  /\ ev.swiping
  /\ ~tracker.isMouseDown
  /\ ~tracker.handTrackingActive
  /\ ev.sliceCalls = 0
  /\ \E i \in DOMAIN fruits : ~fruits[i].sliced

\* the timestamps of tr do not decrease from the first (oldest) point to the
\* last (newest)
TimeOrdered(tr) ==
  \A i, j \in DOMAIN tr : i < j => tr[i].timestamp <= tr[j].timestamp

\* C21: after every tracking result and every mouse/touch event the trail
\* holds at most TRAIL_LENGTH points with non-decreasing timestamps, oldest
\* first; a point pushed on a full trail becomes its last point and exactly
\* the first point is dropped.
C21_TrailBounded ==
  [][ /\ Len(tracker'.trail) <= TRAIL_LENGTH
      /\ TimeOrdered(tracker'.trail)
      /\ \A i \in DOMAIN tracker'.trail : tracker'.trail[i].timestamp <= now'
      /\ (Len(tracker.trail) = TRAIL_LENGTH /\ ev'.kind \in {"hand", "move"}
            /\ tracker'.trail # tracker.trail) =>
           /\ Len(tracker'.trail) = TRAIL_LENGTH
           /\ SubSeq(tracker'.trail, 1, TRAIL_LENGTH - 1) = Tail(tracker.trail)
           /\ tracker'.trail[TRAIL_LENGTH].timestamp = now ]_vars

\* a tracking result has pushed a point on a full trail
C21_Witness ==
  /\ ev.kind = "hand"
  /\ ev.trailLen = TRAIL_LENGTH
  /\ Len(tracker.trail) = TRAIL_LENGTH
  /\ tracker.trail[TRAIL_LENGTH].timestamp = now
  /\ tracker.trail[1].timestamp < now

EffectDue(tms) == {tms[i].due : i \in {j \in DOMAIN tms : tms[j].kind = "effectOff"}}

\* C23: the frame that slices a freeze fruit leaves the effect 'freeze', the
\* time scale 0.2 and a single expiry timer due FREEZE_DURATION later, any
\* earlier one being cancelled; the expiry time changes at no other step;
\* the timer fires when due and reverts the effect to none and the time
\* scale to 1; the effect is active exactly while its timer is pending.
C23_FreezeExpiry ==
  [][ /\ (ev'.kind = "frame" /\ ev'.specialCalls > 0) =>
           /\ activeEffect' = "freeze"
           /\ timeScale' = 2
           /\ EffectDue(timers') = {now' + FREEZE_DURATION}
      /\ (ev'.kind = "timer" /\ ev'.timerKind = "effectOff") =>
           /\ EffectDue(timers) = {now'}
           /\ activeEffect' = "none"
           /\ timeScale' = 10
           /\ EffectDue(timers') = {}
      /\ ~(ev'.kind = "frame" /\ ev'.specialCalls > 0)
           /\ ~(ev'.kind = "timer" /\ ev'.timerKind = "effectOff") =>
           /\ EffectDue(timers') = EffectDue(timers)
           /\ activeEffect' = activeEffect
           /\ timeScale' = timeScale
      /\ Cardinality(EffectDue(timers')) <= 1
      /\ (activeEffect' = "freeze") <=> (EffectDue(timers') # {})
      /\ timeScale' = EffectScale(activeEffect') ]_vars

\* a freeze that had EffectRemaining ms left was renewed by a slice at
\* Epoch + FreezeDt and has ended FREEZE_DURATION after that slice
C23_Witness ==
  /\ ev.kind = "timer"
  /\ ev.timerKind = "effectOff"
  /\ ev.effect = "freeze"
  /\ effectTimeout = 2
  /\ now = Epoch + FreezeDt + FREEZE_DURATION
  /\ activeEffect = "none"
  /\ timeScale = 10

\* C24: every special fruit on screen is a freeze fruit, the active effect is
\* never 'frenzy' and no frenzy shower is pending; so no frame skips the
\* bomb checks (a bomb under the blade is sliced) and every frame at which a
\* batch is due (more than the spawn interval since the last one) starts it.
C24_OnlyFreeze ==
  /\ \A i \in DOMAIN specialFruits : specialFruits[i].specialType = "freeze"
  /\ activeEffect # "frenzy"
  /\ CountTimers(timers, "frenzyFruit") = 0
  /\ ev.kind = "frame" =>
       /\ ~ev.immune
       /\ ev.bombHit => ev.bombCalls > 0
       /\ ev.batch <=> (ev.since > SpawnInterval(ev.waveBefore))

\* while a freeze is active a batch has been started and has spawned a
\* bomb and a further freeze fruit
C24_Witness ==
  /\ ev.kind = "frame"
  /\ ev.effect = "freeze"
  /\ ev.batch
  /\ ev.bombSpawns = 1
  /\ ev.specialSpawns = 1
  /\ specialFruits # <<>>

\* C25: a special fruit that is hit is consumed once: a collision pass calls
\* sliceSpecialFruit as often as it removes special fruits, and a pass that
\* hits special fruits only adds SPECIAL_BONUS for each one removed and
\* leaves lives, combo, maxCombo, fruitsSliced, the last-slice timestamp
\* and the game state as they were.
C25_SpecialConsumedOnce ==
  (ev.kind = "frame" /\ ev.specialCalls > 0) =>
    /\ ev.specialCalls = ev.specialRemoved
    /\ (ev.sliceCalls = 0 /\ ev.bombCalls = 0) =>
         /\ ev.mid = [ev.before EXCEPT !.score = @ + SPECIAL_BONUS * ev.specialRemoved]
         /\ ev.comboTimeKept
         /\ ev.midState = "playing"

\* C26: a spawn batch adds one to the spawns-since-special counter and, if it
\* spawns a special fruit (at most one), resets it to 0; no other step
\* changes the counter; the counter is below GUARANTEED_SPECIAL_INTERVAL
\* after every step, so at most GUARANTEED_SPECIAL_INTERVAL - 1 consecutive
\* batches go without a special fruit.
C26_SpecialGuaranteed ==
  /\ spawnsSinceSpecial \in 0..(GUARANTEED_SPECIAL_INTERVAL - 1)
  /\ (ev.kind = "frame" /\ ev.batch) =>
       /\ ev.specialSpawns \in {0, 1}
       /\ spawnsSinceSpecial = IF ev.specialSpawns = 1 THEN 0 ELSE ev.counterBefore + 1
  /\ (ev.kind = "frame" /\ ~ev.batch /\ ev.stateBefore = "playing") =>
       /\ ev.specialSpawns = 0
       /\ spawnsSinceSpecial = ev.counterBefore
  /\ ev.kind = "timer" => spawnsSinceSpecial = ev.counterBefore

\* the batch after GUARANTEED_SPECIAL_INTERVAL - 1 batches without a special
\* fruit has spawned one and reset the counter
C26_Witness ==
  /\ ev.kind = "frame"
  /\ ev.batch
  /\ ev.counterBefore = GUARANTEED_SPECIAL_INTERVAL - 1
  /\ ev.specialSpawns = 1
  /\ spawnsSinceSpecial = 0

\* C27: frames and timer callbacks never lower the wave; after a frame that
\* starts a spawn batch the wave is floor(fruitsSliced / 10) + 1 for the
\* fruits sliced so far; a batch raises the wave announcement exactly when
\* it raises the wave.
C27_WaveTracksSlices ==
  /\ ev.kind \in {"frame", "timer"} => waveRef >= ev.waveBefore
  /\ (ev.kind = "frame" /\ ev.batch) =>
       /\ waveRef = (stats.fruitsSliced \div 10) + 1
       /\ currentWave = waveRef
       /\ ev.announced = (IF waveRef > ev.waveBefore THEN 1 ELSE 0)
       /\ ev.announced = 1 => showWaveAnnouncement

\* C28: a frame starts a spawn batch only when more than
\* max(600, 1500 - 100 x wave) ms have passed since the last batch was
\* started; the interval of the wave is at least 600 ms and that of the next
\* wave is not longer; so a batch starts no less than 600 ms after the
\* batch before it.
C28_SpawnInterval ==
  /\ (ev.kind = "frame" /\ ev.batch) =>
       /\ ev.since > SPAWN_INTERVAL_BASE - 100 * ev.waveBefore
       /\ ev.since > SPAWN_INTERVAL_MIN
       /\ lastSpawn = now
  /\ (ev.kind = "frame" /\ ~ev.batch /\ ev.stateBefore = "playing") =>
       lastSpawn = now - ev.since
  /\ SpawnInterval(waveRef) >= SPAWN_INTERVAL_MIN
  /\ SpawnInterval(waveRef + 1) <= SpawnInterval(waveRef)

\* in wave 9 (interval 600 ms) the frame 600 ms after a batch has started
\* none and the frame 900 ms after it has started the second batch
C28_Witness ==
  /\ ev.kind = "frame"
  /\ ev.batch
  /\ ev.waveBefore = 9
  /\ ev.since = 3 * BatchDt
  /\ now = Epoch + 6 * BatchDt

\* C29: a spawn batch is either critical (it schedules 4 or 5 fruits, spawns
\* no bomb and raises the critical flag) or regular (it schedules between 1
\* and min(3, wave) fruits, spawns at most one bomb and does not raise the
\* flag); a frame without a batch schedules and spawns nothing.
C29_BatchComposition ==
  /\ (ev.kind = "frame" /\ ev.batch) =>
       \/ /\ ev.criticalRaised = 1
          /\ criticalFlash
          /\ ev.scheduled \in {4, 5}
          /\ ev.bombSpawns = 0
       \/ /\ ev.criticalRaised = 0
          /\ ev.scheduled \in 1..Min(3, ev.waveBefore)
          /\ ev.bombSpawns \in {0, 1}
  /\ (ev.kind = "frame" /\ ~ev.batch) =>
       /\ ev.criticalRaised = 0
       /\ ev.scheduled = 0
       /\ ev.bombSpawns = 0

\* a critical batch of five fruits has been scheduled
C29_Witness ==
  /\ ev.kind = "frame"
  /\ ev.batch
  /\ ev.criticalRaised = 1
  /\ ev.scheduled = 5
  /\ criticalFlash
  /\ CountTimers(timers, "spawnFruit") = 5

\* C30: in a frame of a run under way, every sliceFruit call of the collision
\* pass adds two halves, a left and a right one of opposite spin at the
\* fruit's position; the physics pass removes exactly the halves that are SLICED_FRUIT_LIFETIME old or older,
\* so that every half left is younger, wherever it is; a pass that removes
\* halves and neither slices nor misses anything leaves the stats and the
\* game state as they were.
C30_HalvesLifetime ==
  (ev.kind = "frame" /\ ev.stateBefore = "playing") =>
    /\ ev.halvesAdded = 2 * ev.sliceCalls
    /\ ev.halvesPaired
    /\ ev.halvesRemoved = ev.halvesExpired
    /\ \A i \in DOMAIN slicedFruits : now - slicedFruits[i].createdAt < SLICED_FRUIT_LIFETIME
    /\ (ev.halvesRemoved > 0 /\ ev.sliceCalls = 0 /\ ev.specialCalls = 0
          /\ ev.bombCalls = 0 /\ ev.missed = 0) =>
         /\ stats = ev.before
         /\ gameState = ev.stateBefore

\* a pass has removed the two halves of a fruit, which had fallen below the
\* line at which fruits are dropped, and has changed nothing else
C30_Witness ==
  /\ ev.kind = "frame"
  /\ ev.stateBefore = "playing"
  /\ ev.halvesRemoved = 2
  /\ ev.sliceCalls = 0
  /\ ev.missed = 0
  /\ stats = ev.before
  /\ stats.fruitsSliced > 0
  /\ slicedFruits = <<>>


\* C35: in js/game.js the gameOver callback that sliceBomb arms ends only the
\* run in which the bomb was sliced: a callback that moves the game from
\* playing to game-over was armed in the run it ends.
C35_BombTimerOwnRun ==
  (ev.kind = "gameOverTimer" /\ ev.stateBefore = "playing" /\ game.state = "gameOver") =>
    ev.timerRun = game.run

\* C36: in js/game.js the lives stay within 0..maxLives whatever the main
\* loop, the buttons and the timers call.
C36_GameLivesInRange ==
  /\ game.lives >= 0
  /\ game.lives <= game.maxLives

\* C31: maxCombo is a running maximum: it is never below combo, it never
\* decreases within a run, every step of a run leaves it at the larger of its
\* old value and the combo the step produced, and startGame sets both
\* to 0; so maxCombo is the largest combo reached since the run's startGame.
C31_MaxComboRunningMax ==
  /\ [](stats.maxCombo >= stats.combo)
  /\ [][ /\ run' = run =>
              /\ stats'.maxCombo >= stats.maxCombo
              /\ stats'.maxCombo = Max(stats.maxCombo, stats'.combo)
         /\ run' # run => (stats'.maxCombo = 0 /\ stats'.combo = 0) ]_vars

\* in the second run a chain has been broken: the combo is back at 1 and
\* maxCombo still holds the 2 reached before
C31_Witness ==
  /\ run = 2
  /\ ev.kind = "slice"
  /\ ev.before.combo = 2
  /\ stats.combo = 1
  /\ stats.maxCombo = 2
  /\ ev.gap = COMBO_WINDOW

\* C33: the first sliceFruit call after startGame gives combo 1 and adds the
\* base points of the fruit to a score of 0, however long ago the last slice
\* of the run before was and whatever its combo.
C33_FirstSliceAfterRestart ==
  (ev.kind = "slice" /\ ev.before.fruitsSliced = 0) =>
    /\ ev.before.combo = 0
    /\ ev.before.score = 0
    /\ stats.combo = 1
    /\ stats.maxCombo = 1
    /\ stats.score = FRUIT_POINTS[ev.type]

\* the first slice of the second run, 200 ms after the last slice of the
\* first run, which had scored with a combo (high score above 2)
C33_Witness ==
  /\ run = 2
  /\ ev.kind = "slice"
  /\ ev.before.fruitsSliced = 0
  /\ ev.gap = 200
  /\ ev.before.highScore > 2
  /\ stats.combo = 1
  /\ stats.score = FRUIT_POINTS[ev.type]

\* C32: the time scale and the active effect agree in every state: the scale
\* is 1 exactly when no effect is active, 0.2 exactly when the effect is
\* freeze and 0.3 exactly when it is frenzy (timeScale is in tenths).
C32_TimeScaleMatchesEffect ==
  /\ timeScale \in {10, 2, 3}
  /\ timeScale = 10 <=> activeEffect = "none"
  /\ timeScale = 2 <=> activeEffect = "freeze"
  /\ timeScale = 3 <=> activeEffect = "frenzy"

\* the menu button pressed after a run that ended while a freeze was active
C32_Witness ==
  /\ ev.kind = "menu"
  /\ ev.effect = "freeze"
  /\ ev.effectPending
  /\ gameState = "menu"
  /\ timeScale = 10
  /\ activeEffect = "none"

\* the live entities of the state with the numerator of their hitbox factor
HitTargets ==
  {[x |-> fruits[j].x, y |-> fruits[j].y, radius |-> fruits[j].radius,
    num |-> FRUIT_HIT_NUM, kind |-> "fruit"] : j \in DOMAIN fruits}
  \cup {[x |-> specialFruits[j].x, y |-> specialFruits[j].y,
          radius |-> specialFruits[j].radius,
          num |-> SPECIAL_HIT_NUM, kind |-> "special"] : j \in DOMAIN specialFruits}
  \cup {[x |-> bombs[j].x, y |-> bombs[j].y, radius |-> bombs[j].radius,
          num |-> BOMB_HIT_NUM, kind |-> "bomb"] : j \in DOMAIN bombs}

\* f(t) = a t^2 + b t + c, the squared distance from the centre of e to the
\* point p1 + t (p2 - p1) less the squared hitbox radius, at t = 0 and t = 1,
\* and its discriminant, all times HIT_DEN^2
QuadAt0(p1, p2, e) ==
  HIT_DEN * HIT_DEN * ((p1.x - e.x) * (p1.x - e.x) + (p1.y - e.y) * (p1.y - e.y))
    - (e.num * e.radius) * (e.num * e.radius)

QuadAt1(p1, p2, e) ==
  HIT_DEN * HIT_DEN * ((p2.x - e.x) * (p2.x - e.x) + (p2.y - e.y) * (p2.y - e.y))
    - (e.num * e.radius) * (e.num * e.radius)

\* f has a root t with 0 <= t <= 1 (a > 0): f changes sign or vanishes at an
\* end of [0,1], or it is positive at both ends, its vertex -b/2a lies in
\* [0,1] and its discriminant is not negative
RootInUnit(p1, p2, e) ==
  LET a == (p2.x - p1.x) * (p2.x - p1.x) + (p2.y - p1.y) * (p2.y - p1.y)
      b == 2 * ((p1.x - e.x) * (p2.x - p1.x) + (p1.y - e.y) * (p2.y - p1.y))
      f0 == QuadAt0(p1, p2, e)
      f1 == QuadAt1(p1, p2, e)
  IN  /\ a > 0
      /\ \/ f0 = 0 \/ f1 = 0
         \/ (f0 < 0 /\ f1 > 0) \/ (f0 > 0 /\ f1 < 0)
         \/ /\ f0 > 0 /\ f1 > 0
            /\ b <= 0 /\ b + 2 * a >= 0
            /\ HIT_DEN * HIT_DEN * (b * b) - 4 * a * f0 >= 0

\* C34: lineCircleIntersection is true exactly when the quadratic of the
\* segment and the circle has a root t with 0 <= t <= 1; a segment wholly
\* inside the circle and a segment of length zero are no hit; a fruit that
\* checkCollisions left in its list was no hit, and a bomb got its sliceBomb
\* call exactly when it was one.
C34_RootInUnitInterval ==
  Len(tracker.trail) = 2 =>
    \A e \in HitTargets :
      LET p1 == tracker.trail[1]
          p2 == tracker.trail[2]
          hit == lineCircleIntersection(p1.x, p1.y, p2.x, p2.y, e.x, e.y, e.radius, e.num)
      IN  /\ hit <=> RootInUnit(p1, p2, e)
          /\ (QuadAt0(p1, p2, e) < 0 /\ QuadAt1(p1, p2, e) < 0) => ~hit
          /\ (p1.x = p2.x /\ p1.y = p2.y) => ~hit
          /\ (ev.kind = "hit" /\ e.kind # "bomb") => ~hit
          /\ (ev.kind = "hit" /\ e.kind = "bomb") => (hit <=> ev.bombCalls > 0)

\* checkCollisions has left alone a bomb whose circle holds the whole
\* segment, of non-zero length
C34_Witness ==
  /\ ev.kind = "hit"
  /\ ev.bombCalls = 0
  /\ \E e \in HitTargets :
       /\ e.kind = "bomb"
       /\ tracker.trail[1] # tracker.trail[2]
       /\ QuadAt0(tracker.trail[1], tracker.trail[2], e) < 0
       /\ QuadAt1(tracker.trail[1], tracker.trail[2], e) < 0

\* C37: while the hand hovers over an enabled GestureButton without a break,
\* the dwell timer calls onActivate once and no more, at the first animation
\* frame for which dwellTime (600 ms) of that hover has gone by and never
\* before; when the hover ends (the hand leaves, tracking stops or the button
\* is disabled) the timer is cancelled with nothing pending, and the next hover
\* times from its own start; a disabled button is never activated.
C37_DwellActivatesOnce ==
  /\ [](/\ button.dwellActs <= 1
        /\ ~button.actedDisabled
        /\ button.disabled => ~button.isHovering
        /\ ~button.isHovering =>
             /\ ~button.timer /\ button.startTime = 0
             /\ ~button.hasActivated /\ button.dwellActs = 0
        /\ (button.isHovering /\ ~button.hasActivated) =>
             /\ button.timer /\ button.dwellActs = 0
             /\ button.startTime >= button.hoverSince /\ button.hoverSince > 0
        /\ (button.isHovering /\ button.hasActivated) => button.dwellActs = 1)
  /\ [][ /\ button'.dwellActs > button.dwellActs =>
              /\ button.isHovering /\ button'.isHovering /\ ~button.disabled
              /\ button'.hoverSince = button.hoverSince
              /\ now - button.hoverSince >= DWELL_TIME
         /\ (~button.isHovering /\ button'.isHovering) =>
              (button'.startTime = now /\ button'.hoverSince = now)
         /\ (ButtonFrame /\ button.isHovering /\ ~button.hasActivated
               /\ now - button.startTime >= DWELL_TIME) =>
              (button'.dwellActs = 1 /\ button'.lastAct = "dwell" /\ button'.lastActAt = now)
       ]_vars

\* the hand has stayed on the button for a second dwell time after the
\* activation, the callback was replaced meanwhile, and there was no second
\* activation
C37_Witness ==
  /\ button.isHovering /\ button.dwellActs = 1 /\ button.lastAct = "dwell"
  /\ button.lastActAt = button.hoverSince + DWELL_TIME
  /\ now >= button.lastActAt + DWELL_TIME
  /\ button.onActivate = 1

\* the attempts whose race between initPromise and timeout is not over
InFlight == {i \in DOMAIN camera.attempts : ~camera.attempts[i].settled}

\* C38: requestCamera is single-flight.  At most one initialization is in
\* flight, and the in-flight flag is set exactly then; a call made meanwhile
\* changes nothing and starts no attempt; when an initialization ends, by
\* success, failure or timeout, isLoading and isInitializing are both false,
\* so that with nothing in flight the flags block no call.
C38_SingleFlight ==
  /\ [](/\ Cardinality(InFlight) <= 1
        /\ camera.isInitializing <=> InFlight # {}
        /\ camera.isLoading => camera.isInitializing)
  /\ [][ /\ (RequestCamera /\ InFlight # {}) =>
              /\ camera'.attempts = camera.attempts
              /\ camera'.last.kind = "blocked"
              /\ camera' = [camera EXCEPT !.last = camera'.last]
         /\ Len(camera'.attempts) > Len(camera.attempts) =>
              /\ InFlight = {}
              /\ Len(camera'.attempts) = Len(camera.attempts) + 1
              /\ camera'.attempts[Len(camera'.attempts)].settled =>
                   (~camera'.isLoading /\ ~camera'.isInitializing)
         /\ \A i \in InFlight :
              camera'.attempts[i].settled =>
                /\ ~camera'.isLoading /\ ~camera'.isInitializing
                /\ camera'.last.kind \in {"succeeded", "failed"}
                /\ camera'.last.attempt = i
       ]_vars

\* a call is refused while a second attempt is in flight, the first having
\* timed out
C38_Witness ==
  /\ Len(camera.attempts) = 2
  /\ camera.attempts[1].timedOut
  /\ ~camera.attempts[2].settled
  /\ camera.last.kind = "blocked"
  /\ camera.isInitializing

\* C39: when an initialization has failed with a permission error (the
\* browser's NotAllowedError), permissionDenied is set and the error text is
\* the permission text, and in that state a requestCamera call changes
\* nothing; only enableMouseFallback leaves that state.  When it has failed by
\* timeout, by the library not being loaded or by another error,
\* permissionDenied is not set, and a requestCamera call then starts a new
\* attempt.
C39_PermissionBlocksRetry ==
  /\ [](camera.last.kind = "failed" =>
          /\ camera.last.error \in {ErrNotAllowed, ErrNotAllowedPlain} =>
               (camera.permissionDenied /\ camera.initError = "permission")
          /\ camera.last.error = ErrTimeout =>
               (~camera.permissionDenied /\ camera.initError = "timeout")
          /\ camera.last.error = ErrLibrary =>
               (~camera.permissionDenied /\ camera.initError = "mediapipe")
          /\ camera.last.error \in {ErrNotFound, ErrAbort} =>
               (~camera.permissionDenied /\ camera.initError = "other")
          /\ ~camera.isLoading /\ ~camera.isInitializing)
  /\ [][ /\ (RequestCamera /\ camera.permissionDenied /\ camera.initError = "permission") =>
              /\ camera'.last.kind = "blocked"
              /\ camera' = [camera EXCEPT !.last = camera'.last]
         /\ (/\ camera.permissionDenied /\ camera.initError = "permission"
             /\ ~(camera'.permissionDenied /\ camera'.initError = "permission")) =>
              camera'.last.kind = "fallback"
         /\ (/\ RequestCamera
             /\ camera.last.kind = "failed"
             /\ camera.last.error \notin {ErrNotAllowed, ErrNotAllowedPlain}) =>
              /\ Len(camera'.attempts) = Len(camera.attempts) + 1
              /\ camera'.last.kind \in {"started", "failed"}
              /\ camera'.last.attempt = Len(camera'.attempts)
       ]_vars

\* after a timeout a second attempt was started and ended with a permission
\* error, and a third call was blocked
C39_Witness ==
  /\ Len(camera.attempts) = 2
  /\ camera.attempts[1].timedOut
  /\ camera.attempts[2].pc = "failed"
  /\ camera.permissionDenied /\ camera.initError = "permission"
  /\ camera.last.kind = "blocked"

\* C40: an attempt that was reported as failed by timeout installs no media
\* stream, registers no hand-tracking instance, starts no camera and gives no
\* tracking result afterwards.
C40_AbandonedAttemptInert ==
  \A i \in DOMAIN camera.attempts :
    camera.attempts[i].timedOut =>
      /\ camera.streamRef # i /\ camera.videoRef # i
      /\ camera.handsRef # i /\ camera.cameraRef # i
      /\ ~camera.attempts[i].streamOn
      /\ ~camera.attempts[i].cameraOn
      /\ camera.attempts[i].results = 0

========================================================================
